---- MODULE Spec2Model ----
(***************************************************************************)
(* Model of the polygon-to-value colour resolution pipeline of the mapflow *)
(* dashboard: the threshold rule evaluator (WeatherService.getPolygonColor)*)
(* the value resolver (getPolygonCurrentValue of the dashboard store) and  *)
(* the geometry helpers (calculateCentroid, calculateBoundingBox); and of  *)
(* the dashboard around it: the date check of the API window, the store    *)
(* with its persistence to localStorage, and the weather fetches of the    *)
(* map component and of the Dashboard's effects with their completions,    *)
(* the timeline controls, the drawing and editing gestures on the map,     *)
(* the rename controls and the sidebar's data sources and colour rules     *)
(* with the legend that sorts the rules it shows, and the adapter of the   *)
(* API's response (transformWeatherData).                                  *)
(*                                                                         *)
(* Numbers.  A JavaScript number that the pipeline produces is modelled as *)
(* an exact fraction [num, den] with den > 0 (a division sum / length is   *)
(* kept as the pair, floating-point rounding is not modelled); null is the *)
(* record Null.  The fallback series is kept to hundred-thousandths:       *)
(* Math.sin is tabulated to the nearest, and a draw of Math.random() * 5   *)
(* is a whole number of thousandths.                                       *)
(*                                                                         *)
(* Time.  An instant (a JavaScript Date) is a number of minutes since      *)
(* 00:00 UTC of day 0, which is 1 January 1940; seconds and milliseconds   *)
(* are not modelled, and Date.now(), which names polygons, is the separate *)
(* counter msClock.  The local time zone is a fixed offset tzOffset in     *)
(* minutes (no daylight saving change inside the window).  A timestamp     *)
(* string                                                                  *)
(* "YYYY-MM-DDTHH:MM..." is the record [day, hour, minute] of its fields.  *)
(***************************************************************************)
EXTENDS Integers, Sequences, FiniteSets, TLC

VARIABLES
    value,        \* getPolygonColor: argument value (a number or null)
    colorRules,   \* getPolygonColor: argument colorRules
    color,        \* getPolygonColor: the colour returned, NotCalled before the call
    timeline,     \* store: state.timeline (mode, selectedHour, selectedRange, baseDate)
    weatherData,  \* store: state.weatherData, a map polygon id -> series
    tzOffset,     \* environment: local time minus UTC, in minutes
    currentValue, \* per timeline mode, what getPolygonCurrentValue last returned
    points,       \* geometry helpers: argument points
    centroid,     \* calculateCentroid: the result, NotComputed before the call
    boundingBox,  \* calculateBoundingBox: the result, NotComputed before the call
    now,          \* environment: the instant the clock reads (new Date())
    date,         \* isValidDateForAPI: argument date
    valid,        \* isValidDateForAPI: <<result>>, <<>> before the call
    polygons,     \* store: state.polygons
    dataSources,  \* store: state.dataSources
    selectedPolygonId, \* store: state.selectedPolygonId
    drawingMode,  \* store: state.drawingMode
    isLoading,    \* store: state.isLoading
    storage,      \* localStorage item 'dashboard-storage', NoItem when unset
    msClock,      \* environment: what Date.now() returns (low-order part)
    requests,     \* every request handed to fetch so far, in order
    pending,      \* indices into requests of the fetches still in flight
    failed,       \* indices into requests of the fetches that threw
    messages,     \* the message.warning and message.error notifications raised so far
    effectPending, \* Dashboard: the fetch effect is scheduled to run
    colorPending, \* Dashboard: the colour effect is scheduled to run
    drawn,        \* PolygonDrawer: the points clicked so far
    editingPolygonId, \* MapComponent: the polygon being edited, NoId when none
    editingPoints, \* PolygonEditor: the vertices as dragged so far
    draggedVertexIndex, \* PolygonEditor: the vertex held, NoIndex when none
    renamingPolygonId, \* MapComponent: the polygon being renamed, NoId when none
    newPolygonName, \* MapComponent: the text of the rename input
    response,     \* transformWeatherData: the hourly object of the API's response
    transformed   \* transformWeatherData: what it returned, NotTransformed before

colorVars == <<value, colorRules, color>>

valueVars == <<timeline, weatherData, tzOffset, currentValue>>

geomVars == <<points, centroid, boundingBox>>

checkVars == <<date, valid>>

storeVars == <<polygons, dataSources, selectedPolygonId, drawingMode, isLoading,
               storage>>

fetchVars == <<msClock, requests, pending, failed, messages,
               effectPending, colorPending>>

renameVars == <<renamingPolygonId, newPolygonName>>

editVars == <<drawn, editingPolygonId, editingPoints, draggedVertexIndex,
              renameVars>>

adapterVars == <<response, transformed>>

dashVars == <<now, checkVars, storeVars, fetchVars, editVars, adapterVars>>

vars == <<value, colorRules, color, timeline, weatherData, tzOffset,
          currentValue, points, centroid, boundingBox, now, date, valid,
          polygons, dataSources, selectedPolygonId, drawingMode, isLoading,
          storage, msClock, requests, pending, failed, messages,
          effectPending, colorPending, drawn, editingPolygonId, editingPoints,
          draggedVertexIndex, renamingPolygonId, newPolygonName, response,
          transformed>>

-----------------------------------------------------------------------------
(* Numbers and null *)

Null == [kind |-> "null"]

Num(n) == [kind |-> "number", num |-> n, den |-> 1]

Frac(n, d) == [kind |-> "number", num |-> n, den |-> d]

IsNull(v) == v.kind = "null"

\* a + b and a / n (n a positive whole number) on fractions; a sum over one
\* denominator keeps it
NumAdd(a, b) ==
    IF a.den = b.den THEN Frac(a.num + b.num, a.den)
    ELSE Frac(a.num * b.den + b.num * a.den, a.den * b.den)

NumDiv(a, n) == Frac(a.num, a.den * n)

\* JavaScript comparison of two numbers, on fractions: the whole parts
\* first, then what is left over them; NaN (0 / 0) compares false
NumEq(a, b) ==
    /\ a.den > 0 /\ b.den > 0
    /\ a.num \div a.den = b.num \div b.den
    /\ (a.num % a.den) * b.den = (b.num % b.den) * a.den

NumLt(a, b) ==
    /\ a.den > 0 /\ b.den > 0
    /\ \/ a.num \div a.den < b.num \div b.den
       \/ /\ a.num \div a.den = b.num \div b.den
          /\ (a.num % a.den) * b.den < (b.num % b.den) * a.den

NumLe(a, b) == NumLt(a, b) \/ NumEq(a, b)

-----------------------------------------------------------------------------
(* Threshold rule evaluator: WeatherService.getPolygonColor *)

Operators == {"=", "<", ">", "<=", ">="}

NoDataColor == "#gray-400"

DefaultColor == "#94a3b8"

NotCalled == "not called"

\* the comparator handed to Array.prototype.sort: (a, b) => a.value - b.value
compareRules_descending(a, b) == b.value - a.value

compareRules(a, b) == a.value - b.value

\* Array.prototype.sort is stable: an element goes behind every element that
\* does not compare greater than it
RECURSIVE insertRule(_, _)
insertRule(sorted, r) ==
    IF sorted = <<>> THEN <<r>>
    ELSE IF compareRules(Head(sorted), r) > 0 THEN <<r>> \o sorted
    ELSE <<Head(sorted)>> \o insertRule(Tail(sorted), r)

RECURSIVE sortFrom(_, _)
sortFrom(sorted, rest) ==
    IF rest = <<>> THEN sorted
    ELSE sortFrom(insertRule(sorted, Head(rest)), Tail(rest))

sortedRules_unsorted(rules) == rules

\* const sortedRules = [...colorRules].sort((a, b) => a.value - b.value)
sortedRules(rules) == sortFrom(<<>>, rules)

\* the switch over rule.operator
ruleMatches(v, rule) ==
    CASE rule.operator = "="  -> NumEq(v, Num(rule.value))
      [] rule.operator = "<"  -> NumLt(v, Num(rule.value))
      [] rule.operator = ">"  -> NumLt(Num(rule.value), v)
      [] rule.operator = "<=" -> NumLe(v, Num(rule.value))
      [] rule.operator = ">=" -> NumLe(Num(rule.value), v)
      [] OTHER -> FALSE

RECURSIVE firstMatch_lastRule(_, _)
firstMatch_lastRule(v, rules) ==
    IF rules = <<>> THEN DefaultColor
    ELSE IF ruleMatches(v, Head(rules)) \/ Len(rules) = 1 THEN Head(rules).color
    ELSE firstMatch_lastRule(v, Tail(rules))

\* for (const rule of sortedRules) { ... return color ... } return '#94a3b8'
RECURSIVE firstMatchLoop(_, _)
firstMatchLoop(v, rules) ==
    IF rules = <<>> THEN DefaultColor
    ELSE IF ruleMatches(v, Head(rules)) THEN Head(rules).color
    ELSE firstMatchLoop(v, Tail(rules))

firstMatch(v, rules) == firstMatchLoop(v, rules)

\* without the null check JavaScript compares null as the number 0
getPolygonColor_nullAsZero(v, rules) ==
    firstMatch(IF IsNull(v) THEN Num(0) ELSE v, sortedRules(rules))

getPolygonColor(v, rules) ==
    IF IsNull(v) THEN NoDataColor
    ELSE firstMatch(v, sortedRules(rules))

-----------------------------------------------------------------------------
(* Dates: the JavaScript Date operations the resolver and the slider use *)

Instant(day, hour, minute) == (day * 24 + hour) * 60 + minute

\* d.setDate(d.getDate() + days): the local calendar day moves, the local
\* time of day stays
setDate(t, days) == t + days * 24 * 60

\* d.setHours(h): the local hour is replaced, local day and minutes stay
setHours(t, h, tz) ==
    LET local == t + tz
    IN  (local - (local % (24 * 60))) + h * 60 + (local % 60) - tz

\* d.getHours(): the hour of the local time of day
getHours(t, tz) == ((t + tz) % (24 * 60)) \div 60

\* d.toISOString().split('T')[0]: the calendar day in UTC
isoDate(t) == t \div (24 * 60)

\* d.toISOString(): the UTC fields of the instant
toISOString(t) ==
    [day |-> t \div (24 * 60), hour |-> (t % (24 * 60)) \div 60, minute |-> t % 60]

\* timestamp.startsWith(prefix) for a prefix "YYYY-MM-DDTHH:MM"
startsWith(timestamp, prefix) ==
    /\ timestamp.day = prefix.day
    /\ timestamp.hour = prefix.hour
    /\ timestamp.minute = prefix.minute

\* date-fns addDays(date, n) and addHours(date, n)
addDays(t, n) == setDate(t, n)
addHours(t, n) == t + n * 60

\* TimelineSlider.getDateFromHour: the instant the slider displays for an offset
getDateFromHour(tl, hour) == addHours(addDays(tl.baseDate, -15), hour)

\* WeatherService.getDateRange
getDateRange(baseDate) ==
    [startDate |-> setDate(baseDate, -15), endDate |-> setDate(baseDate, 15)]

-----------------------------------------------------------------------------
(* Value resolver: getPolygonCurrentValue of the dashboard store *)

NotResolved == [kind |-> "not resolved"]

\* the targetDate of single mode, after its three mutations
targetDate(tl, tz) ==
    LET targetHour == tl.selectedHour
        d1 == setDate(tl.baseDate, -15)
        d2 == setHours(d1, targetHour % 24, tz)
    IN  setDate(d2, targetHour \div 24)

\* targetDate.toISOString().split('T')[0] + 'T' +
\*   targetDate.getHours().toString().padStart(2, '0') + ':00'
targetTimestamp(tl, tz) ==
    LET d == targetDate(tl, tz)
    IN  [day |-> isoDate(d), hour |-> getHours(d, tz), minute |-> 0]

\* the indices of the entries whose timestamp starts with the prefix
matching(data, prefix) ==
    {i \in 1..Len(data) : startsWith(data[i].timestamp, prefix)}

findRecord_last(data, prefix) ==
    LET hits == matching(data, prefix)
    IN  IF hits = {} THEN Null
        ELSE data[CHOOSE i \in hits : \A j \in hits : j <= i].value

\* data.find(d => d.timestamp.startsWith(targetTimestamp)): the first entry, in
\* array order, that passes; then record?.value ?? null
findRecord(data, prefix) ==
    LET hits == matching(data, prefix)
    IN  IF hits = {} THEN Null
        ELSE data[CHOOSE i \in hits : \A j \in hits : i <= j].value

inRange_exclusiveEnd(index, startHour, endHour) ==
    index >= startHour /\ index < endHour

\* the filter predicate of range mode, on the 0-based array index
inRange(index, startHour, endHour) ==
    index >= startHour /\ index <= endHour

\* data.filter((d, index) => index >= startHour && index <= endHour): the
\* entries that pass, in array order
filterByIndex(data, startHour, endHour) ==
    LET kept == {index \in 0..(Len(data) - 1) : inRange(index, startHour, endHour)}
        nth(k) == CHOOSE index \in kept :
                     Cardinality({j \in kept : j < index}) = k - 1
    IN  [k \in 1..Cardinality(kept) |-> data[nth(k) + 1]]

relevantData(data, range) == filterByIndex(data, range[1], range[2])

\* the sum of the values of the entries from..to of a non-empty array; on
\* exact fractions the order of the additions does not change the sum, and
\* it is taken here by halves
RECURSIVE sumOfValues(_, _, _)
sumOfValues(data, from, to) ==
    IF from = to THEN data[from].value
    ELSE LET half == (from + to) \div 2
         IN  NumAdd(sumOfValues(data, from, half),
                    sumOfValues(data, half + 1, to))

\* relevantData.reduce((acc, d) => acc + d.value, 0)
reduceSum(acc, data) ==
    IF Len(data) = 0 THEN acc
    ELSE NumAdd(acc, sumOfValues(data, 1, Len(data)))

\* the outcome of a call that ends in an exception instead of a return
Raised == [kind |-> "raised"]

\* the statements of getPolygonCurrentValue that read data, from data.length
\* on. For an id the Map does not hold, get gives undefined, and reading
\* length of undefined is a TypeError
readData(cache, polygonId, tl, tz) ==
    IF polygonId \notin DOMAIN cache THEN Raised
    ELSE IF Len(cache[polygonId]) = 0 THEN Null
    ELSE IF tl.mode = "single"
         THEN findRecord(cache[polygonId], targetTimestamp(tl, tz))
    ELSE LET rel == relevantData(cache[polygonId], tl.selectedRange)
         IN  IF Len(rel) = 0 THEN Null
             ELSE NumDiv(reduceSum(Num(0), rel), Len(rel))

\* without the !data check every call reads data.length
resolveValue_unguarded(cache, polygonId, tl, tz) ==
    readData(cache, polygonId, tl, tz)

resolveValue_zeroDefault(cache, polygonId, tl, tz) ==
    IF polygonId \notin DOMAIN cache \/ Len(cache[polygonId]) = 0 THEN Num(0)
    ELSE IF tl.mode = "single"
         THEN findRecord(cache[polygonId], targetTimestamp(tl, tz))
    ELSE LET rel == relevantData(cache[polygonId], tl.selectedRange)
         IN  IF Len(rel) = 0 THEN Null
             ELSE NumDiv(reduceSum(Num(0), rel), Len(rel))

\* the body of getPolygonCurrentValue on explicit arguments: the cache, the
\* polygon id, the timeline and the local time zone. !data is tested first,
\* and only a data that is there is read
resolveValue(cache, polygonId, tl, tz) ==
    IF polygonId \notin DOMAIN cache THEN Null
    ELSE readData(cache, polygonId, tl, tz)

getPolygonCurrentValue(polygonId) ==
    resolveValue(weatherData, polygonId, timeline, tzOffset)

-----------------------------------------------------------------------------
(* Geometry helpers: calculateCentroid and calculateBoundingBox *)

NotComputed == <<>>

NoBox == [computed |-> FALSE]

\* points.reduce((sum, [lat]) => sum + lat, 0), axis 1 = lat, axis 2 = lng
RECURSIVE reduceAxis(_, _, _)
reduceAxis(acc, pts, axis) ==
    IF pts = <<>> THEN acc
    ELSE reduceAxis(acc + Head(pts)[axis], Tail(pts), axis)

calculateCentroid_swapped(pts) ==
    <<Frac(reduceAxis(0, pts, 2), Len(pts)), Frac(reduceAxis(0, pts, 1), Len(pts))>>

calculateCentroid(pts) ==
    <<Frac(reduceAxis(0, pts, 1), Len(pts)), Frac(reduceAxis(0, pts, 2), Len(pts))>>

\* points.map(([lat]) => lat) and points.map(([, lng]) => lng)
mapAxis(pts, axis) == [i \in 1..Len(pts) |-> pts[i][axis]]

\* Math.min(...xs) and Math.max(...xs) of a non-empty list
RECURSIVE mathMin(_)
mathMin(xs) ==
    IF Len(xs) = 1 THEN xs[1]
    ELSE LET m == mathMin(Tail(xs)) IN IF xs[1] < m THEN xs[1] ELSE m

RECURSIVE mathMax(_)
mathMax(xs) ==
    IF Len(xs) = 1 THEN xs[1]
    ELSE LET m == mathMax(Tail(xs)) IN IF xs[1] > m THEN xs[1] ELSE m

calculateBoundingBox(pts) ==
    [minLat |-> mathMin(mapAxis(pts, 1)), maxLat |-> mathMax(mapAxis(pts, 1)),
     minLng |-> mathMin(mapAxis(pts, 2)), maxLng |-> mathMax(mapAxis(pts, 2))]

-----------------------------------------------------------------------------
(* Inputs of the rule evaluator *)

MaxRules == 2

\* thresholds an InputNumber can hold
ThresholdInputs == {10, 25}

\* colours a ColorPicker can deliver: color.toHexString() is "#rrggbb"
Palette == {"#1890ff", "#52c41a", "#94a3b8"}

\* the rules handed to the evaluator, without the id, which it does not read
RuleInputs ==
    [operator : Operators, value : ThresholdInputs, color : Palette]

ValueInputs == {Null} \cup {Num(n) : n \in {5, 10, 25, 30}}

Rule(op, v, c) == [operator |-> op, value |-> v, color |-> c]

\* the colorRules of DEFAULT_DATA_SOURCES
DefaultColorRules ==
    [temperature |->
        <<Rule("<", 10, "#1890ff"), Rule(">=", 10, "#52c41a"),
          Rule(">=", 25, "#fa8c16"), Rule(">=", 35, "#f5222d")>>,
     humidity |->
        <<Rule("<", 30, "#ff4d4f"), Rule(">=", 30, "#fa8c16"),
          Rule(">=", 60, "#52c41a"), Rule(">=", 80, "#1890ff")>>,
     precipitation |->
        <<Rule("=", 0, "#f0f0f0"), Rule(">", 0, "#52c41a"),
          Rule(">=", 2, "#1890ff"), Rule(">=", 10, "#722ed1")>>,
     wind_speed |->
        <<Rule("<", 5, "#52c41a"), Rule(">=", 5, "#fa8c16"),
          Rule(">=", 15, "#ff4d4f"), Rule(">=", 25, "#722ed1")>>]

\* rules <10:A, >=10:B, >=25:C, the first three temperature rules
ExampleRules == SubSeq(DefaultColorRules.temperature, 1, 3)

ExampleValues == {Null} \cup {Num(n) : n \in {0, 5, 10, 30, 40, 70}}

SeqsUpTo(S, n) == UNION {[1..k -> S] : k \in 0..n}

Perms(s) ==
    {[i \in 1..Len(s) |-> s[p[i]]] :
        p \in {q \in [1..Len(s) -> 1..Len(s)] :
                 \A i, j \in 1..Len(s) : q[i] = q[j] => i = j}}

-----------------------------------------------------------------------------
(* Inputs of the value resolver *)

MaxSeries == 2

PolygonId == "polygon_1"

Modes == {"single", "range"}

\* the store's initial timeline: selectedHour 360, selectedRange [350, 370]
InitialHour == 360

InitialRange == <<350, 370>>

\* new Date() when the store is created: any time of day
BaseDateInputs == {Instant(20, 0, 0), Instant(20, 10, 0), Instant(20, 10, 23)}

\* UTC and UTC+05:30
TzInputs == {0, 330}

HourInputs == {0, 10, 34, 360}

RangeInputs == {<<0, 0>>, <<10, 10>>, <<0, 1>>, <<1, 2>>, <<350, 370>>}

Stamp(day, hour, minute) == [day |-> day, hour |-> hour, minute |-> minute]

\* a series entry: its timestamp and its value, a number
Entry(ts, v) == [timestamp |-> ts, value |-> v]

\* two entries on the hour 10:00 of day 5 and one at 10:23 of that day
EntryInputs ==
    {Entry(Stamp(5, 10, 0), Num(1)), Entry(Stamp(5, 10, 0), Num(2)),
     Entry(Stamp(5, 10, 23), Num(3))}

\* one entry per hour over the 30 * 24 hours that start at the hour of the
\* instant the slider shows for offset 0; entry i carries the value i + 1
alignedSeries(tl) ==
    LET start == getDateFromHour(tl, 0)
    IN  [i \in 1..(30 * 24) |->
            Entry([toISOString(addHours(start, i - 1)) EXCEPT !.minute = 0],
                  Num(i))]

SeriesInputs(tl) == SeqsUpTo(EntryInputs, MaxSeries) \cup {alignedSeries(tl)}

EmptyMap == [k \in {} |-> <<>>]

MapSet_dropOthers(m, k, v) == [x \in {k} |-> v]

MapSet(m, k, v) == [x \in DOMAIN m \cup {k} |-> IF x = k THEN v ELSE m[x]]

-----------------------------------------------------------------------------
(* Inputs of the geometry helpers *)

MaxPoints == 3

CoordInputs == {-1, 0, 2}

PointInputs == CoordInputs \X CoordInputs

ExamplePoints == <<<<0, 0>>, <<0, 2>>, <<2, 2>>, <<2, 0>>>>

-----------------------------------------------------------------------------
(* The specifications; each leaves the variables of the others idle *)

ColorIdle ==
    /\ value = Null
    /\ colorRules = <<>>
    /\ color = NotCalled

ValueIdle ==
    /\ timeline = [mode |-> "single", selectedHour |-> InitialHour,
                   selectedRange |-> InitialRange, baseDate |-> Instant(20, 0, 0)]
    /\ weatherData = EmptyMap
    /\ tzOffset = 0
    /\ currentValue = [m \in Modes |-> NotResolved]

GeomIdle ==
    /\ points = <<>>
    /\ centroid = NotComputed
    /\ boundingBox = NoBox

\* localStorage.getItem('dashboard-storage') before anything was saved
NoItem == [set |-> FALSE]

\* selectedPolygonId: null, kept as a string that is no polygon's id
NoId == "null"

CheckIdle ==
    /\ date = 0
    /\ valid = <<>>

StoreIdle ==
    /\ polygons = <<>>
    /\ dataSources = <<>>
    /\ selectedPolygonId = NoId
    /\ drawingMode = FALSE
    /\ isLoading = FALSE
    /\ storage = NoItem

FetchIdle ==
    /\ msClock = 0
    /\ requests = <<>>
    /\ pending = {}
    /\ failed = {}
    /\ messages = {}
    /\ effectPending = FALSE
    /\ colorPending = FALSE

\* draggedVertexIndex: null, kept as an index no vertex has
NoIndex == -1

EditIdle ==
    /\ drawn = <<>>
    /\ editingPolygonId = NoId
    /\ editingPoints = <<>>
    /\ draggedVertexIndex = NoIndex
    /\ renamingPolygonId = NoId
    /\ newPolygonName = ""

NotTransformed == [kind |-> "not called"]

AdapterIdle ==
    /\ response = [time |-> <<>>, values |-> <<>>]
    /\ transformed = NotTransformed

DashIdle ==
    /\ now = 0
    /\ CheckIdle
    /\ StoreIdle
    /\ FetchIdle
    /\ EditIdle
    /\ AdapterIdle

(* Rule evaluator *)

ColorInit ==
    /\ color = NotCalled
    /\ \/ /\ colorRules \in SeqsUpTo(RuleInputs, MaxRules)
          /\ value \in ValueInputs
       \/ /\ colorRules \in
                {ExampleRules} \cup {DefaultColorRules[k] : k \in DOMAIN DefaultColorRules}
          /\ value \in ExampleValues
    /\ ValueIdle
    /\ GeomIdle
    /\ DashIdle

\* a call WeatherService.getPolygonColor(value, colorRules)
Evaluate ==
    /\ color = NotCalled
    /\ color' = getPolygonColor(value, colorRules)
    /\ UNCHANGED <<value, colorRules, valueVars, geomVars, dashVars>>

\* the same rules handed over in another order, and evaluated again
Reorder ==
    /\ color # NotCalled
    /\ \E p \in Perms(colorRules) :
         /\ p # colorRules
         /\ colorRules' = p
         /\ color' = getPolygonColor(value, p)
    /\ UNCHANGED <<value, valueVars, geomVars, dashVars>>

ColorNext == Evaluate \/ Reorder

SpecColor == ColorInit /\ [][ColorNext]_vars

(* Geometry helpers *)

GeomInit ==
    /\ points \in (SeqsUpTo(PointInputs, MaxPoints) \ {<<>>}) \cup {ExamplePoints}
    /\ centroid = NotComputed
    /\ boundingBox = NoBox
    /\ ColorIdle
    /\ ValueIdle
    /\ DashIdle

CallCentroid ==
    /\ centroid = NotComputed
    /\ centroid' = calculateCentroid(points)
    /\ UNCHANGED <<points, boundingBox, colorVars, valueVars, dashVars>>

CallBoundingBox ==
    /\ boundingBox = NoBox
    /\ boundingBox' = calculateBoundingBox(points)
    /\ UNCHANGED <<points, centroid, colorVars, valueVars, dashVars>>

GeomNext == CallCentroid \/ CallBoundingBox

SpecGeom == GeomInit /\ [][GeomNext]_vars

-----------------------------------------------------------------------------
(* Properties of the rule evaluator, checked under SpecColor *)

Evaluated == color # NotCalled

Passing(v, rules) == {i \in DOMAIN rules : ruleMatches(v, rules[i])}

\* rule i comes no later than rule j in ascending-threshold order, ties in
\* the order of the list
ComesFirst(rules, i, j) ==
    \/ rules[i].value < rules[j].value
    \/ rules[i].value = rules[j].value /\ i <= j

DistinctThresholds(rules) ==
    \A i, j \in DOMAIN rules : rules[i].value = rules[j].value => i = j

\* C1: for a non-absent value the colour returned is the colour of the
\* passing rule that comes first in ascending-threshold order (ties in list
\* order): the smallest passing threshold wins, and the rules <10:A, >=10:B,
\* >=25:C with the value 30 give B.
C1_FirstAscendingMatch ==
    (Evaluated /\ ~IsNull(value)) =>
        /\ \A i \in Passing(value, colorRules) :
              (\A j \in Passing(value, colorRules) : ComesFirst(colorRules, i, j))
                  => color = colorRules[i].color
        /\ (colorRules = ExampleRules /\ value = Num(30)) => color = "#52c41a"

C1_Witness ==
    /\ Evaluated
    /\ colorRules = ExampleRules
    /\ value = Num(30)
    /\ Cardinality(Passing(value, colorRules)) = 2
    /\ color = ExampleRules[2].color

\* C2 (as stated): the colour returned does not change when the same rules
\* are handed over in any other order, rules sharing a threshold included.
C2_PermutationInvariant ==
    [][Evaluated => color' = color]_vars

\* C2 (amended): for a rule list whose thresholds are pairwise distinct the
\* colour returned is the same for every permutation of the list.
C2_PermutationInvariantDistinct ==
    [][(Evaluated /\ DistinctThresholds(colorRules)) => color' = color]_vars

C2_Witness ==
    /\ Evaluated
    /\ ~IsNull(value)
    /\ Len(colorRules) >= 2
    /\ DistinctThresholds(colorRules)
    /\ colorRules[1].value > colorRules[2].value
    /\ colorRules[1].color # colorRules[2].color
    /\ {1, 2} \subseteq Passing(value, colorRules)
    /\ color = colorRules[2].color

\* C3: for the absent value the no-data colour is returned whatever the
\* rules are, and it differs from the default colour and from the colour of
\* every rule of the list.
C3_NoDataColor ==
    (Evaluated /\ IsNull(value)) =>
        /\ color = "#gray-400"
        /\ color # DefaultColor
        /\ \A i \in DOMAIN colorRules : colorRules[i].color # color

C3_Witness ==
    /\ Evaluated
    /\ IsNull(value)
    /\ \E i \in DOMAIN colorRules : ruleMatches(Num(0), colorRules[i])
    /\ color = NoDataColor

\* C4 (as stated): for a non-absent value the default colour is returned
\* exactly when no rule passes, and the default colour differs from the
\* no-data colour and from the colour of every rule of the list.
C4_DefaultExactlyWhenNoMatch ==
    (Evaluated /\ ~IsNull(value)) =>
        /\ color = "#94a3b8" <=> Passing(value, colorRules) = {}
        /\ "#94a3b8" # NoDataColor
        /\ \A i \in DOMAIN colorRules : colorRules[i].color # "#94a3b8"

\* C4 (amended): for a non-absent value the default colour is returned
\* whenever no rule passes (the empty list included); when no rule of the
\* list carries the default colour it is returned only then.  The default
\* colour differs from the no-data colour and from every rule colour of
\* DEFAULT_DATA_SOURCES.
C4_DefaultWhenNoMatch ==
    (Evaluated /\ ~IsNull(value)) =>
        /\ Passing(value, colorRules) = {} => color = "#94a3b8"
        /\ (\A i \in DOMAIN colorRules : colorRules[i].color # "#94a3b8") =>
              (color = "#94a3b8" => Passing(value, colorRules) = {})
        /\ "#94a3b8" # NoDataColor
        /\ \A k \in DOMAIN DefaultColorRules :
              \A i \in DOMAIN DefaultColorRules[k] :
                 DefaultColorRules[k][i].color # "#94a3b8"

C4_Witness ==
    /\ Evaluated
    /\ ~IsNull(value)
    /\ Len(colorRules) = MaxRules
    /\ Passing(value, colorRules) = {}
    /\ \A i \in DOMAIN colorRules : colorRules[i].color # DefaultColor
    /\ color = DefaultColor

-----------------------------------------------------------------------------
(* Properties of the value resolver, checked under SpecValue *)

Resolved(m) == currentValue[m] # NotResolved

HasSeries == PolygonId \in DOMAIN weatherData /\ weatherData[PolygonId] # <<>>

\* the sum of the values, whole numbers, at the given array positions
RECURSIVE SumValuesAt(_, _)
SumValuesAt(data, positions) ==
    IF positions = {} THEN 0
    ELSE LET p == CHOOSE q \in positions : TRUE
         IN  data[p + 1].value.num + SumValuesAt(data, positions \ {p})

\* C5: without a cache entry, or with an empty cached series, the value
\* resolved is absent in single mode and in range mode, whatever the
\* timeline selection is.
C5_AbsentWithoutSeries ==
    \A m \in Modes : (Resolved(m) /\ ~HasSeries) => currentValue[m] = Null

C5_Witness ==
    /\ PolygonId \in DOMAIN weatherData
    /\ weatherData[PolygonId] = <<>>
    /\ timeline.selectedHour # InitialHour
    /\ timeline.selectedRange # InitialRange
    /\ \A m \in Modes : currentValue[m] = Null

\* C6: in single mode the value resolved is the value of the first entry, in
\* series order, whose timestamp is on the target hour, and absent when no
\* entry's timestamp is.
C6_SingleLookup ==
    (Resolved("single") /\ HasSeries) =>
        LET data == weatherData[PolygonId]
            target == targetTimestamp(timeline, tzOffset)
            onHour(i) == data[i].timestamp = target
        IN  /\ (\A i \in DOMAIN data : ~onHour(i)) => currentValue["single"] = Null
            /\ \A i \in DOMAIN data :
                  (onHour(i) /\ \A j \in 1..(i - 1) : ~onHour(j))
                      => currentValue["single"] = data[i].value

C6_Witness ==
    /\ HasSeries
    /\ Len(weatherData[PolygonId]) = 2
    /\ weatherData[PolygonId][1].timestamp = targetTimestamp(timeline, tzOffset)
    /\ weatherData[PolygonId][2].timestamp = targetTimestamp(timeline, tzOffset)
    /\ weatherData[PolygonId][1].value # weatherData[PolygonId][2].value
    /\ currentValue["single"] = weatherData[PolygonId][1].value

\* C7: in single mode the hour looked up is the hour of the instant the
\* slider displays for the selected offset: the base date moved back 15 days
\* and forward by the offset in hours.
C7_LookupIsSliderInstant ==
    Resolved("single") =>
        targetTimestamp(timeline, tzOffset) =
            [toISOString(getDateFromHour(timeline, timeline.selectedHour))
                EXCEPT !.minute = 0]

\* C8: in range mode the value resolved is the mean of the values at the
\* array positions start..end of the series, absent when the series has no
\* such position; a series of 720 entries and the range [350, 370] give the
\* mean of 21 entries.
C8_RangeMean ==
    (Resolved("range") /\ HasSeries) =>
        LET data == weatherData[PolygonId]
            positions == {p \in 0..(Len(data) - 1) :
                            /\ timeline.selectedRange[1] <= p
                            /\ p <= timeline.selectedRange[2]}
        IN  /\ positions = {} => currentValue["range"] = Null
            /\ positions # {} =>
                  currentValue["range"] =
                      Frac(SumValuesAt(data, positions), Cardinality(positions))
            /\ (Len(data) = 720 /\ timeline.selectedRange = <<350, 370>>) =>
                  currentValue["range"].den = 21

C8_Witness ==
    /\ HasSeries
    /\ Len(weatherData[PolygonId]) = 720
    /\ timeline.selectedRange = <<350, 370>>
    /\ currentValue["range"] = Frac(7581, 21)

\* C9: with a cached series of one entry per hour over the 720 hours that
\* start at timeline offset 0, the range [h, h] resolves to the value that
\* single mode resolves for the hour h.
C9_RangeOfOneIsSingle ==
    (/\ HasSeries
     /\ Len(weatherData[PolygonId]) = 720
     /\ weatherData[PolygonId] = alignedSeries(timeline)
     /\ timeline.selectedRange = <<timeline.selectedHour, timeline.selectedHour>>
     /\ Resolved("single")
     /\ Resolved("range"))
        => currentValue["single"] = currentValue["range"]

-----------------------------------------------------------------------------
(* Properties of the geometry helpers, checked under SpecGeom *)

RECURSIVE SumAxisAt(_, _, _)
SumAxisAt(pts, axis, indices) ==
    IF indices = {} THEN 0
    ELSE LET i == CHOOSE j \in indices : TRUE
         IN  pts[i][axis] + SumAxisAt(pts, axis, indices \ {i})

IsMinOf(x, pts, axis) ==
    (\E i \in DOMAIN pts : pts[i][axis] = x) /\ (\A i \in DOMAIN pts : x <= pts[i][axis])

IsMaxOf(x, pts, axis) ==
    (\E i \in DOMAIN pts : pts[i][axis] = x) /\ (\A i \in DOMAIN pts : x >= pts[i][axis])

\* C10: the centroid of a non-empty point list is (mean of the latitudes,
\* mean of the longitudes) and its bounding box holds the minimum and the
\* maximum of each axis; the square [[0,0],[0,2],[2,2],[2,0]] has the
\* centroid (1, 1) and the box 0, 2, 0, 2.
C10_CentroidAndBox ==
    /\ centroid # NotComputed =>
          /\ NumEq(centroid[1], Frac(SumAxisAt(points, 1, DOMAIN points), Len(points)))
          /\ NumEq(centroid[2], Frac(SumAxisAt(points, 2, DOMAIN points), Len(points)))
          /\ points = ExamplePoints =>
                NumEq(centroid[1], Num(1)) /\ NumEq(centroid[2], Num(1))
    /\ boundingBox # NoBox =>
          /\ IsMinOf(boundingBox.minLat, points, 1)
          /\ IsMaxOf(boundingBox.maxLat, points, 1)
          /\ IsMinOf(boundingBox.minLng, points, 2)
          /\ IsMaxOf(boundingBox.maxLng, points, 2)
          /\ points = ExamplePoints =>
                boundingBox = [minLat |-> 0, maxLat |-> 2, minLng |-> 0, maxLng |-> 2]

C10_Witness ==
    /\ points = ExamplePoints
    /\ centroid = <<Frac(4, 4), Frac(4, 4)>>
    /\ boundingBox = [minLat |-> 0, maxLat |-> 2, minLng |-> 0, maxLng |-> 2]

-----------------------------------------------------------------------------
(* Date validation: WeatherService.isValidDateForAPI *)

\* new Date('1940-01-01'): midnight UTC of 1 January 1940
minDate == Instant(0, 0, 0)

\* new Date(now.getTime() - 5 * 24 * 60 * 60 * 1000)
maxDate == now - 5 * 24 * 60

isValidDateForAPI_exclusive(d) == d >= minDate /\ d < maxDate

\* the clock is read inside the call
isValidDateForAPI(d) == d >= minDate /\ d <= maxDate

NowInputs == {Instant(40, 0, 0), Instant(40, 12, 30)}

NowLimit == Instant(40, 12, 32)

\* instants around 1 January 1940, around five days before the clock
\* readings, and far from both
DateInputs ==
    {t + k : t \in {minDate, Instant(35, 0, 0), Instant(35, 12, 30)}, k \in -2..2}
        \cup {Instant(-1, 0, 0), Instant(20, 10, 0), Instant(60, 0, 0)}

ValidInit ==
    /\ now \in NowInputs
    /\ date \in DateInputs
    /\ valid = <<>>
    /\ ColorIdle
    /\ ValueIdle
    /\ GeomIdle
    /\ StoreIdle
    /\ FetchIdle
    /\ EditIdle
    /\ AdapterIdle

\* time passes before the call
ClockTick ==
    /\ valid = <<>>
    /\ now < NowLimit
    /\ now' = now + 1
    /\ UNCHANGED <<date, valid, colorVars, valueVars, geomVars, storeVars, fetchVars, editVars,
                   adapterVars>>

\* a call WeatherService.isValidDateForAPI(date)
CallIsValid ==
    /\ valid = <<>>
    /\ valid' = <<isValidDateForAPI(date)>>
    /\ UNCHANGED <<now, date, colorVars, valueVars, geomVars, storeVars, fetchVars, editVars,
                   adapterVars>>

ValidNext == ClockTick \/ CallIsValid

SpecValid == ValidInit /\ [][ValidNext]_vars

\* C12: a call isValidDateForAPI(date) answers true exactly when date is not
\* before 1940-01-01T00:00Z and not after the instant five days before the
\* clock reading of the call, both ends included
C12_ValidWindow ==
    valid # <<>> => (valid[1] <=> (0 <= date /\ date + 7200 <= now))

\* a call on the instant exactly five days before the clock reading, after the
\* clock has moved, answered true
C12_Witness ==
    /\ valid = <<TRUE>>
    /\ date + 7200 = now
    /\ now \notin NowInputs

-----------------------------------------------------------------------------
(* The dashboard store: polygons, data sources and persistence *)

\* a colour rule as the store keeps it: the rule with its id
ColorRule(id, rule) ==
    [id |-> id, operator |-> rule.operator, value |-> rule.value,
     color |-> rule.color]

\* a default data source; its rules have the ids '1', '2', '3', '4'
DataSource(id, name, field) ==
    [id |-> id, name |-> name, field |-> field,
     colorRules |-> [i \in DOMAIN DefaultColorRules[id] |->
                        ColorRule(ToString(i), DefaultColorRules[id][i])]]

DEFAULT_DATA_SOURCES ==
    <<DataSource("temperature", "Temperature", "temperature_2m"),
      DataSource("humidity", "Relative Humidity", "relative_humidity_2m"),
      DataSource("precipitation", "Precipitation", "precipitation"),
      DataSource("wind_speed", "Wind Speed", "wind_speed_10m")>>

\* dataSources.find(ds => ds.id === id): the index of the first hit, 0 for
\* undefined
findDataSource(dss, id) ==
    LET hits == {i \in 1..Len(dss) : dss[i].id = id}
    IN  IF hits = {} THEN 0 ELSE CHOOSE i \in hits : \A j \in hits : i <= j

\* `polygon_${Date.now()}` when Date.now() reads t
polygonIdAt(t) == "polygon_" \o ToString(t)

\* `Polygon ${polygons.length + 1}`
polygonName(ps) == "Polygon " \o ToString(Len(ps) + 1)

\* addPolygon: the new polygon is appended; t is what Date.now() reads
addPolygon(ps, dss, polygonData, t) ==
    Append(ps,
        [id |-> polygonIdAt(t),
         color |-> "#1890ff",
         points |-> polygonData.points,
         centroid |-> polygonData.centroid,
         boundingBox |-> polygonData.boundingBox,
         name |-> polygonData.name,
         dataSourceId |-> IF polygonData.dataSourceId # ""
                          THEN polygonData.dataSourceId ELSE dss[1].id])

\* removePolygon: state.polygons.filter(p => p.id !== id)
removePolygon(ps, id) == SelectSeq(ps, LAMBDA p : p.id # id)

\* { ...p, ...updates }
spread(p, updates) ==
    [k \in DOMAIN p |-> IF k \in DOMAIN updates THEN updates[k] ELSE p[k]]

\* updatePolygon(id, updates): state.polygons.map(p => p.id === id ? ... : p)
updatePolygon(ps, id, updates) ==
    [i \in 1..Len(ps) |-> IF ps[i].id = id THEN spread(ps[i], updates) ELSE ps[i]]

polygonIds(ps) == {ps[i].id : i \in 1..Len(ps)}

\* ColorLegend, which every render of the map component renders: the legend
\* shows the data source of the selected polygon, the first data source when
\* no polygon is selected, and nothing when that polygon's data source is
\* unknown; currentDataSource.colorRules.sort((a, b) => a.value - b.value)
\* sorts the array the store holds, in place and without a set of the store
ColorLegend(dss, ps, selected) ==
    LET hits == {i \in 1..Len(ps) : ps[i].id = selected}
        current ==
            IF selected # NoId /\ hits # {}
            THEN findDataSource(dss,
                     ps[CHOOSE i \in hits : \A j \in hits : i <= j].dataSourceId)
            ELSE IF Len(dss) > 0 THEN 1 ELSE 0
    IN  IF current = 0 THEN dss
        ELSE [dss EXCEPT ![current].colorRules = sortedRules(@)]

\* the whole store state
State ==
    [timeline |-> timeline, polygons |-> polygons,
     selectedPolygonId |-> selectedPolygonId, drawingMode |-> drawingMode,
     dataSources |-> dataSources, weatherData |-> weatherData,
     isLoading |-> isLoading]

\* the store as created: lines 136-150, with the clock reading for baseDate
initialState ==
    [timeline |-> [mode |-> "single", selectedHour |-> InitialHour,
                   selectedRange |-> InitialRange, baseDate |-> now],
     polygons |-> <<>>, selectedPolygonId |-> NoId, drawingMode |-> FALSE,
     dataSources |-> DEFAULT_DATA_SOURCES, weatherData |-> EmptyMap,
     isLoading |-> FALSE]

partialize_everything(state) == state

\* persist: partialize
partialize(state) ==
    [polygons |-> state.polygons, dataSources |-> state.dataSources,
     timeline |-> state.timeline]

\* new Date(x) of an ISO string
newDate(x) == Instant(x.day, x.hour, x.minute)

\* JSON.stringify of a number: NaN becomes null
jsonNumber(v) == IF v.den = 0 THEN Null ELSE v

\* JSON.stringify of one polygon
jsonPolygon(p) ==
    [p EXCEPT !.centroid = <<jsonNumber(@[1]), jsonNumber(@[2])>>]

\* JSON.stringify of the partial state: a Date becomes its ISO string
stringify(part) ==
    [k \in DOMAIN part |->
        IF k = "timeline"
        THEN [part[k] EXCEPT !.baseDate = toISOString(@)]
        ELSE IF k = "polygons"
        THEN [i \in 1..Len(part[k]) |-> jsonPolygon(part[k][i])]
        ELSE part[k]]

\* storage.setItem('dashboard-storage', ...) after a set of the store
setItem(state) == [set |-> TRUE, state |-> stringify(partialize(state))]

merge_currentWins(persisted, current) == current

\* persist's merge on load: { ...currentState, ...persistedState }
merge(persisted, current) ==
    [k \in DOMAIN current |->
        IF k \in DOMAIN persisted THEN persisted[k] ELSE current[k]]

\* the store after the page loads with the given storage item.  The
\* restored timeline.baseDate is the ISO string; the store keeps here the
\* instant new Date(timeline.baseDate) makes of it, which is what
\* getDateRange and getPolygonCurrentValue read
rehydrate(item) ==
    IF item.set
    THEN merge([item.state EXCEPT !.timeline.baseDate = newDate(@)], initialState)
    ELSE initialState

-----------------------------------------------------------------------------
(* Weather fetches: the map component's initial fetch and the Dashboard's *)
(* fetch effect                                                            *)

\* WeatherService.fetchWeatherData: the request handed to fetch; inWindow
\* records whether both dates were inside the API's window at that moment
fetchRequest(site, polygonId, startDate, endDate, field) ==
    [site |-> site, key |-> polygonId, field |-> field,
     startDate |-> startDate, endDate |-> endDate,
     inWindow |-> isValidDateForAPI(startDate) /\ isValidDateForAPI(endDate)]

\* the unit of a draw of Math.random() * 5: thousandths
Milli == 1000

\* the resolution of the fallback values: hundred-thousandths
Scale == 100000

\* Math.sin(index / 24) * 10 in hundred-thousandths, rounded to the nearest,
\* for index 0..719
SinTable ==
    <<0, 41655, 83237, 124675, 165896, 206830, 247404, 287549, 327195, 366273,
      404715, 442454, 479426, 515565, 550809, 585097, 618370, 650569, 681639, 711525,
      740177, 767544, 793578, 818235, 841471, 863247, 883524, 902268, 919445, 935026,
      948985, 961296, 971938, 980893, 988146, 993683, 997495, 999576, 999921, 998531,
      995408, 990557, 983986, 975707, 965735, 954086, 940781, 925843, 909297, 891174,
      871503, 850320, 827660, 803564, 778073, 751232, 723086, 693685, 663080, 631324,
      598472, 564581, 529711, 493920, 457273, 419831, 381661, 342828, 303400, 263446,
      223034, 182235, 141120, 99760, 58226, 16592, -25071, -66691, -108195, -149511,
      -190568, -231294, -271618, -311471, -350783, -389487, -427514, -464799, -501277, -536885,
      -571561, -605245, -637879, -669405, -699769, -728918, -756802, -783373, -808584, -832391,
      -854753, -875631, -894989, -912794, -929015, -943622, -956592, -967901, -977530, -985462,
      -991684, -996184, -998955, -999992, -999293, -996859, -992695, -986808, -979208, -969908,
      -958924, -946276, -931985, -916077, -898578, -879520, -858934, -836858, -813329, -788389,
      -762079, -734447, -705540, -675409, -644104, -611682, -578198, -543711, -508279, -471965,
      -434832, -396944, -358367, -319169, -279415, -239177, -198524, -157526, -116255, -74782,
      -33179, 8481, 50127, 91686, 133085, 174254, 215120, 255613, 295662, 335197,
      374151, 412456, 450044, 486851, 522813, 557868, 591954, 625013, 656987, 687820,
      717459, 745853, 772952, 798710, 823081, 846023, 867497, 887465, 905892, 922747,
      938000, 951625, 963598, 973898, 982508, 989412, 994599, 998059, 999787, 999779,
      998036, 994560, 989358, 982439, 973814, 963499, 951511, 937872, 922604, 905735,
      887294, 867313, 845826, 822871, 798487, 772718, 745607, 717201, 687551, 656708,
      624724, 591656, 557561, 522498, 486528, 449714, 412118, 373808, 334849, 295308,
      255255, 214759, 173889, 132719, 91317, 49757, 8111, -33549, -75151, -116623,
      -157892, -198887, -239537, -279771, -319519, -358713, -397284, -435165, -472292, -508598,
      -544021, -578500, -611975, -644387, -675681, -705803, -734698, -762319, -788616, -813545,
      -837061, -859124, -879696, -898741, -916225, -932120, -946396, -959029, -969998, -979283,
      -986868, -992740, -996888, -999307, -999990, -998938, -996152, -991636, -985399, -977452,
      -967808, -956484, -943500, -928877, -912643, -894824, -875452, -854560, -832185, -808366,
      -783143, -756561, -728665, -699505, -669130, -637594, -604951, -571258, -536573, -500957,
      -464471, -427179, -389146, -350437, -311119, -271262, -230934, -190205, -149145, -107827,
      -66322, -24701, 16962, 58596, 100128, 141486, 182599, 223395, 263803, 303753,
      343176, 382003, 420167, 457602, 494242, 530024, 564887, 598769, 631611, 663357,
      693952, 723341, 751476, 778306, 803784, 827868, 850514, 871685, 891342, 909451,
      925982, 940906, 954197, 965831, 975788, 984052, 990607, 995443, 998551, 999926,
      999565, 997469, 993641, 988089, 980821, 971851, 961194, 948868, 934895, 919299,
      902108, 883351, 863060, 841271, 818022, 793353, 767306, 739928, 711265, 681368,
      650288, 618079, 584797, 550500, 515248, 479101, 442122, 404376, 365928, 326845,
      287194, 247045, 206467, 165531, 124308, 82868, 41285, -370, -42024, -83606,
      -125042, -166261, -207192, -247763, -287903, -327544, -366617, -405053, -442786, -479750,
      -515882, -551118, -585397, -618661, -650850, -681909, -711785, -740426, -767781, -793803,
      -818447, -841671, -863433, -883697, -902427, -919590, -935157, -949101, -961397, -972025,
      -980965, -988202, -993724, -997521, -999586, -999917, -998511, -995372, -990506, -983920,
      -975626, -965639, -953975, -940655, -925703, -909143, -891006, -871322, -850125, -827453,
      -803344, -777841, -750987, -722830, -693418, -662803, -631037, -598176, -564276, -529397,
      -493598, -456943, -419495, -381319, -342481, -303048, -263089, -222673, -181871, -140754,
      -99392, -57857, -16222, 25441, 67060, 108563, 149877, 190931, 231654, 271974,
      311823, 351130, 389827, 427848, 465126, 501597, 537197, 571865, 605540, 638164,
      669680, 700033, 729172, 757044, 783603, 808801, 832596, 854945, 875810, 895154,
      912945, 929151, 943745, 956700, 967994, 977608, 985525, 991731, 996216, 998972,
      999993, 999279, 996830, 992650, 986748, 979133, 969818, 958819, 946156, 931851,
      915928, 898416, 879344, 858745, 836656, 813114, 788161, 761840, 734196, 705278,
      675136, 643821, 611389, 577896, 543400, 507960, 471639, 434499, 396605, 358022,
      318818, 279060, 238818, 198162, 157161, 115888, 74413, 32809, -8851, -50497,
      -92054, -133452, -174618, -215481, -255970, -296015, -335546, -374494, -412793, -450375,
      -487175, -523129, -558175, -592252, -625302, -657266, -688088, -717717, -746100, -773187,
      -798932, -823291, -846220, -867681, -887635, -906049, -922889, -938128, -951738, -963697,
      -973982, -982577, -989466, -994637, -998082, -999794, -999771, -998013, -994522, -989304,
      -982370, -973730, -963400, -951397, -937743, -922461, -905578, -887123, -867128, -845628,
      -822660, -798264, -772483, -745360, -716943, -687282, -656428, -624435, -591358, -557254,
      -522182, -486205, -449383, -411781, -373465, -334500, -294954, -254897, -214397, -173525,
      -132352, -90949, -49388, -7741, 33919, 75520, 116990, 158257, 199250, 239896,
      280126, 319870, 359058, 397624, 435499, 472618, 508916, 544332, 578802, 612268,
      644670, 675954, 706065, 734949, 762558, 788844, 813760, 837263, 859313, 879872,
      898903, 916373, 932253, 946515, 959134, 970088, 979358, 986927, 992784, 996918,
      999320, 999989, 998921, 996119, 991588, 985336, 977374, 967715, 956376, 943377,
      928740, 912492, 894659, 875273, 854368, 831980, 808148, 782913, 756319, 728411,
      699240, 668855, 637309, 604656, 570954, 536261, 500636, 464143, 426845, 388805,
      350090, 310768, 270906, 230574, 189841, 148779, 107459, 65953, 24331, -17332,
      -58965, -100496, -141853, -182963, -223756, -264160, -304106, -343523, -382345, -420503,
      -457931, -494564, -530338, -565192, -599065, -631898, -663634, -694218, -723597, -751720,
      -778538, -804005, -828076, -850709, -871866, -891509, -909605, -926122, -941031, -954307,
      -965926, -975869, -984118, -990658, -995479, -998571, -999930, -999554, -997442, -993599>>

sinTimes10(index) == SinTable[index + 1]

\* the fallback series of the fetch effect; random[i] is what
\* Math.random() * 5 gave for entry i, a whole number of thousandths; the
\* value is 15 + Math.sin(index / 24) * 10 + Math.random() * 5 to the nearest
\* hundred-thousandth
mockData(startDate, random) ==
    [i \in 1..(30 * 24) |->
        Entry(toISOString(addHours(startDate, i - 1)),
              Frac(15 * Scale + sinTimes10(i - 1)
                     + random[i] * (Scale \div Milli), Scale))]

\* what the archive API holds for each field a data source can name
ApiValue ==
    [temperature_2m |-> 20, relative_humidity_2m |-> 50, precipitation |-> 0,
     wind_speed_10m |-> 7, wind_direction_10m |-> 180,
     surface_pressure |-> 1013]

\* what the API delivers for a request: two hourly entries of the requested
\* field, from 00:00 of the start date on
apiSeries(startDate, field) ==
    <<Entry(Stamp(isoDate(startDate), 0, 0), Num(ApiValue[field])),
      Entry(Stamp(isoDate(startDate), 1, 0), Num(ApiValue[field]))>>

\* a run of Math.random() * 5 over the 720 entries, in thousandths (0..4999):
\* the run that starts at r and moves on by 1237 thousandths, wrapping at 5
randomDraws(r) == [i \in 1..(30 * 24) |-> (r + 1237 * (i - 1)) % (5 * Milli)]

\* In the store specification the cache keeps each array by how it was made,
\* the array a fetch resolved with or the array the fetch effect generated,
\* and series(a) is its content
delivered(req) ==
    [origin |-> "api", startDate |-> req.startDate, field |-> req.field,
     random |-> 0]

generated(req, r) ==
    [origin |-> "mock", startDate |-> req.startDate, field |-> "", random |-> r]

\* the clock reading of the session
StoreNow == Instant(40, 12, 30)

\* the base date an earlier session, twenty days before, has saved
SavedBaseDate == Instant(20, 10, 0)

\* the first draw of the two runs of Math.random() * 5 the model follows, in
\* thousandths; every value and every mean over a range of either series
\* lies on the same side of each whole threshold as the number the code
\* computes
RandomInputs == {69, 4021}

\* the fallback series of the base dates and draws the model follows, each
\* written out once
MockSeries ==
    [startDate \in {getDateRange(b).startDate : b \in {StoreNow, SavedBaseDate}} |->
        [r \in RandomInputs |-> mockData(startDate, randomDraws(r))]]

series(a) ==
    IF a.origin = "api"
    THEN apiSeries(a.startDate, a.field)
    ELSE MockSeries[a.startDate][a.random]

\* antd message.warning / error (message.info and message.success are not
\* followed); about is the request the
\* notification belongs to, 0 when it belongs to none
Msg(level, text, about) == [level |-> level, text |-> text, about |-> about]

-----------------------------------------------------------------------------
(* Inputs and actions of the store, the map component and the fetch effect *)

MaxDraws == 1

MaxRequests == 4

\* the storage item at page load: none, or the one that session left
StorageInputs ==
    {NoItem,
     setItem([initialState EXCEPT !.timeline.baseDate = SavedBaseDate])}

DrawnPointInputs == {ExamplePoints}

\* the slider's props min and max: 0 and totalHours - 1
minHour == 0
maxHour == 30 * 24 - 1

\* what the slider hands to onChange: one thumb in single mode, two in range
\* mode, whole hours from minHour to maxHour in ascending order
SliderInputs ==
    {<<minHour>>, <<maxHour>>, <<minHour, minHour>>, <<minHour, 1>>,
     <<5, 30>>, <<maxHour, maxHour>>}

\* the data source picked in the modal for a new polygon
DataSourceChoices == {"temperature"}

\* the data source picked in the sidebar for the selected polygon, whether it
\* has that data source already or not
SidebarChoices == {"humidity"}

\* variables no action of the dashboard changes
idleVars == <<colorVars, tzOffset, currentValue, centroid, boundingBox, now,
              checkVars, adapterVars>>

\* variables no action of the store specification changes
restVars == <<idleVars, editVars>>

\* zustand persist: every set of the store writes the storage item
Persist == storage' = setItem(State')

\* a set after which the render's legend sorts the rules of another data
\* source: the item holds the data sources dss as the set left them
PersistBeforeRender(dss) ==
    storage' = setItem([State' EXCEPT !.dataSources = dss])

\* the polygons the fetch effect fetches for: those with a known data source
fetchable(ps) ==
    SelectSeq(ps, LAMBDA q : findDataSource(dataSources, q.dataSourceId) # 0)

\* the fetch effect's validation of the window around the base date
windowValid ==
    /\ isValidDateForAPI(getDateRange(timeline.baseDate).startDate)
    /\ isValidDateForAPI(getDateRange(timeline.baseDate).endDate)

\* the model follows a page up to MaxRequests requests
WithinRequests(reqs) == Len(reqs) <= MaxRequests

(* Value resolver: the store's timeline and cache actions, and the getter *)

ValueInit ==
    /\ timeline \in [mode : {"single"}, selectedHour : {InitialHour},
                     selectedRange : {InitialRange}, baseDate : BaseDateInputs]
    /\ weatherData = EmptyMap
    /\ tzOffset \in TzInputs
    /\ currentValue = [m \in Modes |-> NotResolved]
    /\ now = 0
    /\ polygons = <<>>
    /\ dataSources = DEFAULT_DATA_SOURCES
    /\ selectedPolygonId = NoId
    /\ drawingMode = FALSE
    /\ isLoading = FALSE
    /\ storage = NoItem
    /\ CheckIdle
    /\ FetchIdle
    /\ EditIdle
    /\ AdapterIdle
    /\ ColorIdle
    /\ GeomIdle

\* variables no setter of the store changes
setterRest == <<tzOffset, colorVars, geomVars, now, checkVars, fetchVars,
                editVars, adapterVars>>

\* each setter is one set of the store, which persist writes to storage
setTimelineMode(mode) ==
    /\ timeline' = [timeline EXCEPT !.mode = mode]
    /\ UNCHANGED <<weatherData, currentValue, polygons, dataSources,
                   selectedPolygonId, drawingMode, isLoading, setterRest>>
    /\ Persist

setSelectedHour(hour) ==
    /\ timeline' = [timeline EXCEPT !.selectedHour = hour]
    /\ currentValue' = [m \in Modes |-> NotResolved]
    /\ UNCHANGED <<weatherData, polygons, dataSources, selectedPolygonId,
                   drawingMode, isLoading, setterRest>>
    /\ Persist

setSelectedRange(range) ==
    /\ timeline' = [timeline EXCEPT !.selectedRange = range]
    /\ currentValue' = [m \in Modes |-> NotResolved]
    /\ UNCHANGED <<weatherData, polygons, dataSources, selectedPolygonId,
                   drawingMode, isLoading, setterRest>>
    /\ Persist

setWeatherData(polygonId, data) ==
    /\ weatherData' = MapSet(weatherData, polygonId, data)
    /\ currentValue' = [m \in Modes |-> NotResolved]
    /\ UNCHANGED <<timeline, polygons, dataSources, selectedPolygonId,
                   drawingMode, isLoading, setterRest>>
    /\ Persist

\* no component calls setLoading; it is followed where the store is reloaded
setLoading(loading) ==
    /\ isLoading' = loading
    /\ UNCHANGED <<timeline, weatherData, currentValue, polygons, dataSources,
                   selectedPolygonId, drawingMode, setterRest>>
    /\ Persist

\* a call getPolygonCurrentValue(polygonId) in the current timeline mode
Resolve ==
    /\ currentValue[timeline.mode] = NotResolved
    /\ currentValue' =
          [currentValue EXCEPT ![timeline.mode] = getPolygonCurrentValue(PolygonId)]
    /\ UNCHANGED <<timeline, weatherData, tzOffset, colorVars, geomVars, dashVars>>

\* the slider's onChange: the hour in single mode, the range in range mode
\* (values holds one thumb in single mode, two in range mode)
SliderChange(values) ==
    IF timeline.mode = "single"
    THEN Len(values) = 1 /\ setSelectedHour(values[1])
    ELSE Len(values) = 2 /\ setSelectedRange(<<values[1], values[2]>>)

ValueNext ==
    \/ \E mode \in Modes : setTimelineMode(mode)
    \/ \E values \in {<<h>> : h \in HourInputs} \cup RangeInputs : SliderChange(values)
    \/ \E data \in SeriesInputs(timeline) : setWeatherData(PolygonId, data)
    \/ Resolve

SpecValue == ValueInit /\ [][ValueNext]_vars

(* Totality: the getter and the evaluator on every input, and the colour a
   map polygon gets from the two *)

\* an id the getter is not asked for
OtherPolygonId == "polygon_2"

\* single mode with a chosen hour, range mode with a chosen range
TimelineInputs ==
    [mode : {"single"}, selectedHour : HourInputs,
     selectedRange : {InitialRange}, baseDate : BaseDateInputs]
    \cup [mode : {"range"}, selectedHour : {InitialHour},
          selectedRange : RangeInputs, baseDate : BaseDateInputs]

\* no entry at all, an entry of another polygon only, or an entry of the
\* polygon asked for, the empty array included
CacheInputs(tl) ==
    {EmptyMap, MapSet(EmptyMap, OtherPolygonId, <<Entry(Stamp(5, 10, 0), Num(1))>>)}
    \cup {MapSet(EmptyMap, PolygonId, data) : data \in SeriesInputs(tl)}

\* the polygons of the store: none, or the one polygon the map shows, drawn
\* on the default data source when Date.now() read 1
PaintedPolygons ==
    {<<>>,
     addPolygon(<<>>, DEFAULT_DATA_SOURCES,
        [points |-> ExamplePoints, dataSourceId |-> "temperature",
         centroid |-> calculateCentroid(ExamplePoints),
         boundingBox |-> calculateBoundingBox(ExamplePoints),
         name |-> polygonName(<<>>)], 1)}

\* the data sources of the store: the defaults, and the defaults after every
\* rule of the first was deleted in the sidebar. No operation removes a data
\* source, so the polygon's data source is always among them
PaintedSources ==
    {DEFAULT_DATA_SOURCES,
     [DEFAULT_DATA_SOURCES EXCEPT ![1].colorRules = <<>>]}

\* '#1890ff', what MapComponent.getPolygonColor returns when it finds no
\* polygon or no data source
MapColor == "#1890ff"

\* what the map is left with when the getter ends in an exception
Uncaught == "uncaught"

TotalInit ==
    \/ ColorInit
    \/ /\ timeline \in TimelineInputs
       /\ weatherData \in CacheInputs(timeline)
       /\ tzOffset \in TzInputs
       /\ currentValue = [m \in Modes |-> NotResolved]
       /\ ColorIdle
       /\ GeomIdle
       /\ now = 0
       /\ polygons \in PaintedPolygons
       /\ dataSources \in PaintedSources
       /\ selectedPolygonId = NoId
       /\ drawingMode = FALSE
       /\ isLoading = FALSE
       /\ storage = NoItem
       /\ CheckIdle
       /\ FetchIdle
       /\ EditIdle
       /\ AdapterIdle

\* MapComponent.getPolygonColor(polygonId), called for the polygon the map
\* renders: '#1890ff' when the store has no such polygon, '#1890ff' when the
\* polygon's data source is not in the store, and else the getter's result
\* handed to the evaluator with the data source's rules. value and
\* colorRules keep what the evaluator was handed; value is NotResolved when
\* the getter was not called. An exception of the getter leaves the
\* evaluator uncalled
Paint ==
    /\ color = NotCalled
    /\ LET hits == {i \in 1..Len(polygons) : polygons[i].id = PolygonId}
           polygon == polygons[CHOOSE i \in hits : \A j \in hits : i <= j]
           dataSource == findDataSource(dataSources, polygon.dataSourceId)
           v == getPolygonCurrentValue(PolygonId)
       IN  IF hits = {} \/ dataSource = 0
           THEN /\ value' = NotResolved
                /\ color' = MapColor
                /\ UNCHANGED colorRules
           ELSE /\ value' = v
                /\ colorRules' = dataSources[dataSource].colorRules
                /\ color' = IF v = Raised THEN Uncaught
                            ELSE getPolygonColor(v, colorRules')
    /\ UNCHANGED <<valueVars, geomVars, dashVars>>

TotalNext == Resolve \/ Evaluate \/ Paint

SpecTotal == TotalInit /\ [][TotalNext]_vars

-----------------------------------------------------------------------------
(* The store with the map component and the Dashboard's effects *)

\* the page loads: the store is created and merged with the storage item,
\* the components mount and the fetch effect is scheduled
StoreInit ==
    /\ now = StoreNow
    /\ storage \in StorageInputs
    /\ timeline = rehydrate(storage).timeline
    /\ polygons = rehydrate(storage).polygons
    /\ selectedPolygonId = rehydrate(storage).selectedPolygonId
    /\ drawingMode = rehydrate(storage).drawingMode
    /\ dataSources = ColorLegend(rehydrate(storage).dataSources,
                                 rehydrate(storage).polygons,
                                 rehydrate(storage).selectedPolygonId)
    /\ weatherData = rehydrate(storage).weatherData
    /\ isLoading = rehydrate(storage).isLoading
    /\ tzOffset = 0
    /\ currentValue = [m \in Modes |-> NotResolved]
    /\ ColorIdle
    /\ GeomIdle
    /\ CheckIdle
    /\ msClock = 0
    /\ requests = <<>>
    /\ pending = {}
    /\ failed = {}
    /\ messages = {}
    /\ effectPending = TRUE
    /\ colorPending = TRUE
    /\ EditIdle
    /\ AdapterIdle

\* MapComponent.handleStartDrawing
handleStartDrawing ==
    /\ ~effectPending /\ ~colorPending
    /\ points = <<>>
    /\ ~drawingMode /\ editingPolygonId = NoId
    /\ drawingMode' = TRUE
    /\ UNCHANGED messages
    /\ UNCHANGED <<timeline, weatherData, points, polygons, dataSources,
                   selectedPolygonId, isLoading, msClock, requests, pending,
                   failed, effectPending, colorPending, restVars>>
    /\ Persist

\* PolygonDrawer.handleComplete with at least three points, and
\* MapComponent.handlePolygonComplete with more than one data source: the
\* points wait for the data source modal
handleComplete(pts) ==
    /\ ~effectPending /\ ~colorPending
    /\ drawingMode
    /\ Len(pts) >= 3
    /\ Len(dataSources) # 1
    /\ points' = pts
    /\ drawingMode' = FALSE
    /\ UNCHANGED messages
    /\ UNCHANGED <<timeline, weatherData, polygons, dataSources,
                   selectedPolygonId, isLoading, msClock, requests, pending,
                   failed, effectPending, colorPending, restVars>>
    /\ Persist

\* MapComponent.fetchWeatherDataForPolygon up to its await: the request is
\* handed to fetch unless the data source is unknown
fetchWeatherDataForPolygon(polygonId, dataSourceId) ==
    LET ds == findDataSource(dataSources, dataSourceId)
        range == getDateRange(timeline.baseDate)
    IN  IF ds = 0
        THEN UNCHANGED <<requests, pending>>
        ELSE /\ requests' = Append(requests,
                    fetchRequest("initial", polygonId, range.startDate,
                                 range.endDate, dataSources[ds].field))
             /\ pending' = pending \cup {Len(requests) + 1}

\* MapComponent.handleDataSourceSelect and createPolygon up to the await:
\* addPolygon reads Date.now(), the fetch key reads it again, at once or a
\* millisecond later; the next event comes later than both
handleDataSourceSelect(dataSourceId) ==
    /\ ~effectPending /\ ~colorPending
    /\ points # <<>>
    /\ msClock < 2 * MaxDraws
    /\ polygons' = addPolygon(polygons, dataSources,
                      [points |-> points, dataSourceId |-> dataSourceId,
                       centroid |-> calculateCentroid(points),
                       boundingBox |-> calculateBoundingBox(points),
                       name |-> polygonName(polygons)],
                      msClock)
    /\ \E later \in {msClock, msClock + 1} :
         fetchWeatherDataForPolygon(polygonIdAt(later), dataSourceId)
    /\ WithinRequests(requests')
    /\ msClock' = msClock + 2
    /\ points' = <<>>
    /\ effectPending' = TRUE
    /\ colorPending' = TRUE
    /\ UNCHANGED <<timeline, weatherData, dataSources, selectedPolygonId,
                   drawingMode, isLoading, failed, messages,
                   restVars>>
    /\ Persist

\* the data source modal's onClose (Cancel, the close button, the mask):
\* the pending points are dropped, no polygon is added and the store is not
\* set
DataSourceSelectorModal_onClose ==
    /\ ~effectPending /\ ~colorPending
    /\ points # <<>>
    /\ points' = <<>>
    /\ UNCHANGED <<timeline, weatherData, storeVars, msClock, requests, pending,
                   failed, messages, effectPending, colorPending, restVars>>

\* MapComponent.handlePolygonClick, which the polygon's click handler calls
\* unless that polygon is being edited; the data source modal, while open,
\* covers the map
handlePolygonClick(polygonId) ==
    /\ ~effectPending /\ ~colorPending
    /\ points = <<>>
    /\ polygonId # editingPolygonId
    /\ selectedPolygonId' = IF selectedPolygonId = polygonId THEN NoId ELSE polygonId
    /\ dataSources' = ColorLegend(dataSources, polygons, selectedPolygonId')
    /\ UNCHANGED <<timeline, weatherData, points, polygons,
                   drawingMode, isLoading, msClock, requests, pending, failed,
                   messages, effectPending, colorPending, restVars>>
    /\ PersistBeforeRender(dataSources)

\* Sidebar.handlePolygonDataSourceChange, the onChange of the select shown
\* for the selected polygon
handlePolygonDataSourceChange(dataSourceId) ==
    /\ ~effectPending /\ ~colorPending
    /\ points = <<>>
    /\ selectedPolygonId # NoId
    /\ polygons' = updatePolygon(polygons, selectedPolygonId,
                                  [dataSourceId |-> dataSourceId])
    /\ dataSources' = ColorLegend(dataSources, polygons', selectedPolygonId)
    /\ effectPending' = TRUE
    /\ colorPending' = TRUE
    /\ UNCHANGED <<timeline, weatherData, points,
                   selectedPolygonId, drawingMode, isLoading, msClock, requests,
                   pending, failed, messages, restVars>>
    /\ PersistBeforeRender(dataSources)

\* a removal that leaves the selection as it is
selectionAfterRemove_kept(selected, id) == selected

\* removePolygon's selectedPolygonId: cleared when the selected polygon goes
selectionAfterRemove(selected, id) == IF selected = id THEN NoId ELSE selected

\* MapComponent.handleDeletePolygon, confirmed; the Delete button belongs to
\* the selected polygon's panel and is disabled while drawing or editing
handleDeletePolygon(polygonId) ==
    /\ ~effectPending /\ ~colorPending
    /\ ~drawingMode /\ points = <<>>
    /\ editingPolygonId = NoId
    /\ polygons' = removePolygon(polygons, polygonId)
    /\ selectedPolygonId' = selectionAfterRemove(selectedPolygonId, polygonId)
    /\ dataSources' = ColorLegend(dataSources, polygons', selectedPolygonId')
    /\ UNCHANGED messages
    /\ effectPending' = TRUE
    /\ colorPending' = TRUE
    /\ UNCHANGED <<timeline, weatherData, points, drawingMode,
                   isLoading, msClock, requests, pending, failed,
                   restVars>>
    /\ PersistBeforeRender(dataSources)

\* the cache with every array written out
cachedSeries == [k \in DOMAIN weatherData |-> series(weatherData[k])]

\* the colour the colour effect computes for a polygon whose data source ds
\* it has found
newColor(polygon, ds) ==
    getPolygonColor(resolveValue(cachedSeries, polygon.id, timeline, tzOffset),
                    dataSources[ds].colorRules)


\* Dashboard.updatePolygonColors: polygons.forEach over the polygons of the
\* render, from the i-th on; ps is state.polygons as updated so far
RECURSIVE updatePolygonColorsFrom(_, _, _)
updatePolygonColorsFrom(rendered, i, ps) ==
    IF i > Len(rendered) THEN ps
    ELSE LET polygon == rendered[i]
             ds == findDataSource(dataSources, polygon.dataSourceId)
         IN  IF ds # 0 /\ newColor(polygon, ds) # polygon.color
             THEN updatePolygonColorsFrom(rendered, i + 1,
                      updatePolygon(ps, polygon.id,
                                    [color |-> newColor(polygon, ds)]))
             ELSE updatePolygonColorsFrom(rendered, i + 1, ps)

updatePolygonColors(rendered) == updatePolygonColorsFrom(rendered, 1, rendered)

\* Dashboard.fetchWeatherDataForAllPolygons up to its awaits: nothing without
\* polygons, a warning and nothing else when a date fails validation, else
\* one request per polygon
fetchWeatherDataForAllPolygons ==
    LET range == getDateRange(timeline.baseDate)
        known == fetchable(polygons)
    IN  IF Len(polygons) = 0
        THEN UNCHANGED <<requests, pending, messages>>
        ELSE IF ~windowValid
        THEN /\ messages' = messages \cup
                   {Msg("warning",
                        "Selected date range is outside the available data range. Using default temperature values.",
                        0)}
             /\ UNCHANGED <<requests, pending>>
        ELSE /\ requests' = requests \o
                   [i \in 1..Len(known) |->
                       fetchRequest("bulk", known[i].id, range.startDate,
                           range.endDate,
                           dataSources[findDataSource(dataSources,
                                           known[i].dataSourceId)].field)]
             /\ pending' = pending \cup
                   {Len(requests) + i : i \in 1..Len(known)}
             /\ UNCHANGED messages

\* the Dashboard's effects after a render: the colour effect when the
\* selection, the polygons or the data sources have changed, then the fetch
\* effect when the base date, the polygons or the data sources have changed,
\* both on the polygons of that render; a colour written by updatePolygon
\* replaces state.polygons, and both effects are due again after the next
\* render
runEffects ==
    /\ colorPending \/ effectPending
    /\ polygons' = IF colorPending THEN updatePolygonColors(polygons) ELSE polygons
    /\ IF effectPending
       THEN fetchWeatherDataForAllPolygons
       ELSE UNCHANGED <<requests, pending, messages>>
    /\ WithinRequests(requests')
    /\ colorPending' = (polygons' # polygons)
    /\ effectPending' = (polygons' # polygons)
    /\ UNCHANGED <<timeline, weatherData, points, dataSources,
                   selectedPolygonId, drawingMode, isLoading, msClock,
                   failed, restVars>>
    /\ IF polygons' # polygons THEN Persist ELSE UNCHANGED storage

\* the mode buttons of the timeline: setTimelineMode(mode)
handleModeClick(mode) ==
    /\ ~effectPending /\ ~colorPending
    /\ points = <<>>
    /\ timeline' = [timeline EXCEPT !.mode = mode]
    /\ colorPending' = (mode # timeline.mode)
    /\ UNCHANGED <<weatherData, points, polygons, dataSources,
                   selectedPolygonId, drawingMode, isLoading, msClock, requests,
                   pending, failed, messages, effectPending, restVars>>
    /\ Persist

\* a timeline control calls setSelectedHour(hour): the colour effect is due
\* when the hour differs
selectHour(hour) ==
    /\ ~effectPending /\ ~colorPending
    /\ points = <<>>
    /\ timeline' = [timeline EXCEPT !.selectedHour = hour]
    /\ colorPending' = (hour # timeline.selectedHour)
    /\ UNCHANGED <<weatherData, points, polygons, dataSources,
                   selectedPolygonId, drawingMode, isLoading, msClock, requests,
                   pending, failed, messages, effectPending, restVars>>
    /\ Persist

\* a timeline control calls setSelectedRange(range): the range is a new
\* array, the colour effect is due
selectRange(range) ==
    /\ ~effectPending /\ ~colorPending
    /\ points = <<>>
    /\ timeline' = [timeline EXCEPT !.selectedRange = range]
    /\ colorPending' = TRUE
    /\ UNCHANGED <<weatherData, points, polygons, dataSources,
                   selectedPolygonId, drawingMode, isLoading, msClock, requests,
                   pending, failed, messages, effectPending, restVars>>
    /\ Persist

\* the slider's onChange: the hour in single mode, the range in range mode
handleSliderChange(values) ==
    IF timeline.mode = "single"
    THEN Len(values) = 1 /\ selectHour(values[1])
    ELSE Len(values) = 2 /\ selectRange(<<values[1], values[2]>>)

\* a superseded response is dropped: one that arrives after a later request
\* for the same key has completed
onResolved_guarded(cache, i) ==
    IF \E j \in (i + 1)..Len(requests) :
           requests[j].key = requests[i].key /\ j \notin pending
    THEN cache
    ELSE MapSet(cache, requests[i].key, delivered(requests[i]))

\* the continuation of a resolved fetch, at either call site:
\* setWeatherData(polygonId, weatherData)
onResolved(cache, i) == MapSet(cache, requests[i].key, delivered(requests[i]))

\* a pending fetch resolves with the API's series
FetchResolves(i) ==
    /\ ~effectPending /\ ~colorPending
    /\ i \in pending
    /\ pending' = pending \ {i}
    /\ weatherData' = onResolved(weatherData, i)
    /\ UNCHANGED <<timeline, points, polygons, dataSources, selectedPolygonId,
                   drawingMode, isLoading, msClock, requests, failed, messages,
                   effectPending, colorPending, restVars>>
    /\ Persist

\* a pending fetch throws (network error or a response that is not ok): the
\* fetch effect logs to the console and caches mock data; the map component
\* logs and raises message.error
FetchRejects(i) ==
    /\ ~effectPending /\ ~colorPending
    /\ i \in pending
    /\ pending' = pending \ {i}
    /\ failed' = failed \cup {i}
    /\ IF requests[i].site = "bulk"
       THEN /\ \E random \in RandomInputs :
                 weatherData' = MapSet(weatherData, requests[i].key,
                                       generated(requests[i], random))
            /\ UNCHANGED <<timeline, polygons, dataSources, selectedPolygonId,
                           drawingMode, isLoading, messages>>
            /\ Persist
       ELSE /\ messages' = messages \cup
                  {Msg("error", "Failed to fetch weather data for polygon.", i)}
            /\ UNCHANGED <<timeline, weatherData, storeVars>>
    /\ UNCHANGED <<points, msClock, requests, effectPending, colorPending, restVars>>

\* a request of an earlier page load: it stays in the count of requests, its
\* response has no continuation to land in
Abandoned ==
    [site |-> "abandoned", key |-> NoId, field |-> "", startDate |-> 0,
     endDate |-> 0, inWindow |-> TRUE]

\* the page is reloaded: the store is created anew and merged with the
\* storage item; component state, pending callbacks and the page's
\* notifications are gone; both effects are scheduled.  The effects of a
\* render run to their end before the page can be left
Reload ==
    /\ ~effectPending /\ ~colorPending
    /\ timeline' = rehydrate(storage).timeline
    /\ polygons' = rehydrate(storage).polygons
    /\ selectedPolygonId' = rehydrate(storage).selectedPolygonId
    /\ drawingMode' = rehydrate(storage).drawingMode
    /\ dataSources' = ColorLegend(rehydrate(storage).dataSources,
                                  rehydrate(storage).polygons,
                                  rehydrate(storage).selectedPolygonId)
    /\ weatherData' = rehydrate(storage).weatherData
    /\ isLoading' = rehydrate(storage).isLoading
    /\ points' = <<>>
    /\ requests' = [i \in 1..Len(requests) |-> Abandoned]
    /\ pending' = {}
    /\ failed' = {}
    /\ messages' = {}
    /\ effectPending' = TRUE
    /\ colorPending' = TRUE
    /\ drawn' = <<>>
    /\ editingPolygonId' = NoId
    /\ editingPoints' = <<>>
    /\ draggedVertexIndex' = NoIndex
    /\ renamingPolygonId' = NoId
    /\ newPolygonName' = ""
    /\ UNCHANGED <<storage, msClock, idleVars>>

\* Math.max(0, current - span)
rangeStart_unclamped(current, span) == current - span

rangeStart(current, span) == IF current - span > 0 THEN current - span ELSE 0

\* Now: the middle of the timeline, or twelve hours to either side of it
handleNow ==
    LET currentHour == 15 * 24
    IN  IF timeline.mode = "single"
        THEN selectHour(currentHour)
        ELSE selectRange(<<currentHour - 12, currentHour + 12>>)

\* Last 24h, shown in range mode
handleLast24h ==
    LET current == timeline.selectedRange[2]
    IN  /\ timeline.mode = "range"
        /\ selectRange(<<rangeStart(current, 23), current>>)

\* Last Week, shown in range mode
handleLastWeek ==
    LET current == timeline.selectedRange[2]
    IN  /\ timeline.mode = "range"
        /\ selectRange(<<rangeStart(current, 167), current>>)

StoreNext ==
    \/ handleStartDrawing
    \/ \E pts \in DrawnPointInputs : handleComplete(pts)
    \/ \E dataSourceId \in DataSourceChoices : handleDataSourceSelect(dataSourceId)
    \/ DataSourceSelectorModal_onClose
    \/ \E i \in 1..Len(polygons) : handlePolygonClick(polygons[i].id)
    \/ \E dataSourceId \in SidebarChoices :
          handlePolygonDataSourceChange(dataSourceId)
    \/ \E i \in 1..Len(polygons) :
          /\ polygons[i].id = selectedPolygonId
          /\ handleDeletePolygon(polygons[i].id)
    \/ \E loading \in BOOLEAN :
          /\ ~effectPending /\ ~colorPending
          /\ setLoading(loading)
    \/ runEffects
    \/ \E i \in pending : FetchResolves(i)
    \/ \E i \in pending : FetchRejects(i)
    \/ Reload

SpecStore == StoreInit /\ [][StoreNext]_vars

-----------------------------------------------------------------------------
(* The timeline controls on a page with a saved polygon, or with none, and a
   network that answers every request *)

\* the polygon an earlier session has drawn and coloured while it had no data
SavedPolygons ==
    updatePolygon(
        addPolygon(<<>>, DEFAULT_DATA_SOURCES,
            [points |-> ExamplePoints, dataSourceId |-> "temperature",
             centroid |-> calculateCentroid(ExamplePoints),
             boundingBox |-> calculateBoundingBox(ExamplePoints),
             name |-> polygonName(<<>>)], 0),
        polygonIdAt(0), [color |-> NoDataColor])

SavedSessionInputs ==
    {NoItem,
     setItem([initialState EXCEPT !.timeline.baseDate = SavedBaseDate,
                                  !.polygons = SavedPolygons])}

\* the page loads, as in StoreInit, some milliseconds after that session
TimelineInit ==
    /\ now = StoreNow
    /\ storage \in SavedSessionInputs
    /\ timeline = rehydrate(storage).timeline
    /\ polygons = rehydrate(storage).polygons
    /\ selectedPolygonId = rehydrate(storage).selectedPolygonId
    /\ drawingMode = rehydrate(storage).drawingMode
    /\ dataSources = ColorLegend(rehydrate(storage).dataSources,
                                 rehydrate(storage).polygons,
                                 rehydrate(storage).selectedPolygonId)
    /\ weatherData = rehydrate(storage).weatherData
    /\ isLoading = rehydrate(storage).isLoading
    /\ tzOffset = 0
    /\ currentValue = [m \in Modes |-> NotResolved]
    /\ ColorIdle
    /\ GeomIdle
    /\ CheckIdle
    /\ msClock = 2
    /\ requests = <<>>
    /\ pending = {}
    /\ failed = {}
    /\ messages = {}
    /\ effectPending = TRUE
    /\ colorPending = TRUE
    /\ EditIdle
    /\ AdapterIdle

TimelineNext ==
    \/ \E mode \in Modes : handleModeClick(mode)
    \/ \E values \in SliderInputs : handleSliderChange(values)
    \/ handleNow
    \/ handleLast24h
    \/ handleLastWeek
    \/ runEffects
    \/ \E i \in pending : FetchResolves(i)

SpecTimeline == TimelineInit /\ [][TimelineNext]_vars

-----------------------------------------------------------------------------
(* Properties of the fetch paths and of the store, checked under SpecStore *)

PendingKeys == {requests[i].key : i \in pending}

Completed == (1..Len(requests)) \ pending

Quiescent == pending = {} /\ ~effectPending /\ ~colorPending

HasSeriesFor(id) ==
    id \in DOMAIN weatherData /\ Len(series(weatherData[id])) > 0

\* C11: no request is handed to fetch, by the fetch effect or by the initial
\* fetch after a drawing, whose start or end date lies outside
\* [1940-01-01, now - 5 days]
C11_NoRequestOutsideWindow ==
    \A i \in 1..Len(requests) : requests[i].inWindow

\* C13: for every fetch that failed, at either call site, the key's cache
\* entry was set to a fallback series (and holds it unless another fetch for
\* the key has completed) and a warning or error notification was raised
C13_FailureHandled ==
    \A i \in failed :
        /\ requests[i].key \in DOMAIN weatherData
        /\ \/ weatherData[requests[i].key].origin = "mock"
           \/ \E j \in Completed \ failed :
                 j # i /\ requests[j].key = requests[i].key
        /\ \E m \in messages : m.about = i /\ m.level \in {"warning", "error"}

\* C14: once a fetch has failed or a window was rejected by validation, and
\* all pending work has completed, every polygon has a non-empty cached series
C14_SeriesAfterFailure ==
    (Quiescent /\ (failed # {} \/ \E m \in messages : m.level = "warning"))
        => \A id \in polygonIds(polygons) : HasSeriesFor(id)

\* C15: a step that removes a polygon from the store leaves no cache entry
\* under its id (from which it would follow that every key of the cache is
\* the id of a polygon in the store or the key of a fetch still in flight)
C15_RemovalClearsCache ==
    [][\A id \in polygonIds(polygons) \ polygonIds(polygons') :
           id \notin DOMAIN weatherData']_vars

\* the arrays the completion of request i can have cached
OutcomesOf(i) ==
    {delivered(requests[i])}
        \cup {generated(requests[i], r) : r \in RandomInputs}

\* C16: each cache entry is at all times the whole array of one completed
\* fetch or of one fallback generation for its key, and a step that changes
\* the cache is the completion of one pending fetch, which sets the entry of
\* its key to its own array and leaves the entry of every other key as it was
C16_WholeSeriesPerKey ==
    /\ [](\A k \in DOMAIN weatherData :
            \E i \in Completed :
                requests[i].key = k /\ weatherData[k] \in OutcomesOf(i))
    /\ [][(weatherData' # weatherData /\ requests' = requests) =>
            \E i \in pending \ pending' :
                /\ DOMAIN weatherData' = DOMAIN weatherData \cup {requests[i].key}
                /\ weatherData'[requests[i].key] \in OutcomesOf(i)
                /\ \A k \in DOMAIN weatherData \ {requests[i].key} :
                       weatherData'[k] = weatherData[k]]_vars

\* two keys are cached and three fetches have completed, so that one entry
\* was replaced while the other was there
C16_Witness ==
    /\ Cardinality(DOMAIN weatherData) = 2
    /\ Len(requests) = 3
    /\ pending = {}

\* C17: a pending fetch that resolves writes its array under its key whatever
\* has completed since it was issued, a later request for the same key
\* included: no response is discarded as superseded
C17_StaleResponseLands ==
    [][\A i \in pending :
           (i \notin pending' /\ i \notin failed' /\ requests' = requests)
               => /\ requests[i].key \in DOMAIN weatherData'
                  /\ weatherData'[requests[i].key] = delivered(requests[i])]_vars

\* two fetches for one key have resolved, the later one for the polygon's
\* present data source, and the cache holds the array of the earlier one,
\* fetched for the data source the polygon had before
C17_Witness ==
    \E i, j \in Completed \ failed :
        /\ i < j
        /\ requests[i].key = requests[j].key
        /\ requests[i].field # requests[j].field
        /\ weatherData[requests[i].key] = delivered(requests[i])
        /\ \E n \in 1..Len(polygons) :
              /\ polygons[n].id = requests[i].key
              /\ dataSources[findDataSource(dataSources,
                                 polygons[n].dataSourceId)].field = requests[j].field

\* the store's polygons as the claim compares them
Persisted(ps) ==
    [i \in 1..Len(ps) |->
        [id |-> ps[i].id, points |-> ps[i].points,
         dataSourceId |-> ps[i].dataSourceId, name |-> ps[i].name]]

\* a step that is a reload of the page
IsReload == Reload

\* C18: the polygons a reload restores from what a set of the store saved
\* are the store's polygons, each with its points, dataSourceId and name; a
\* reload leaves them so
C18_PolygonsRoundTrip ==
    /\ [](storage.set =>
            Persisted(rehydrate(storage).polygons) = Persisted(polygons))
    /\ [][IsReload => Persisted(polygons') = Persisted(polygons)]_vars

\* the page was reloaded with a polygon in the store: it has a polygon,
\* every request so far is one of an earlier page load and no notification
\* is raised
C18_Witness ==
    /\ Len(polygons) > 0
    /\ \A i \in 1..Len(requests) : requests[i] = Abandoned
    /\ messages = {}
    /\ polygons = rehydrate(storage).polygons

\* C19: the storage item holds the polygons, the data sources and the
\* timeline and nothing else; a reload empties the weather cache and puts
\* selectedPolygonId, drawingMode and isLoading at their initial values
C19_OnlyPartialStatePersisted ==
    /\ [](storage.set =>
            /\ DOMAIN storage.state = {"polygons", "dataSources", "timeline"}
            /\ rehydrate(storage).weatherData = EmptyMap
            /\ rehydrate(storage).selectedPolygonId = NoId
            /\ rehydrate(storage).drawingMode = FALSE
            /\ rehydrate(storage).isLoading = FALSE)
    /\ [][IsReload =>
            /\ weatherData' = EmptyMap
            /\ selectedPolygonId' = NoId
            /\ drawingMode' = FALSE
            /\ isLoading' = FALSE]_vars

\* a state a reload can follow: the cache is not empty, a polygon is selected,
\* drawing is on, isLoading is set, and the store was saved
C19_Witness ==
    /\ weatherData # EmptyMap
    /\ selectedPolygonId # NoId
    /\ drawingMode
    /\ isLoading
    /\ storage.set

-----------------------------------------------------------------------------
(* Totality of the getter and the evaluator *)

IsNumber(v) == v.kind = "number" /\ v.den > 0

ColorsOf(rules) ==
    {NoDataColor, DefaultColor} \cup {rules[i].color : i \in 1..Len(rules)}

\* C20: getPolygonCurrentValue and getPolygonColor never raise: for a known
\* and for an unknown polygon id, every cache content, timeline selection,
\* base date and rule list (the empty one included), the getter returns null
\* or a number, called on its own or by the map, and the evaluator returns a
\* colour of the list it was handed: the no-data colour, the default colour
\* or the colour of one of the rules. Where the map calls neither, for a
\* polygon or a data source the store does not hold, it paints '#1890ff'
C20_NeverRaise ==
    /\ \A m \in Modes :
          \/ currentValue[m] = NotResolved
          \/ IsNull(currentValue[m])
          \/ IsNumber(currentValue[m])
    /\ value = NotResolved \/ IsNull(value) \/ IsNumber(value)
    /\ color # NotCalled =>
          IF value = NotResolved THEN color = MapColor
          ELSE color \in ColorsOf(colorRules)

\* the map has painted a polygon of the store whose id the cache does not
\* hold: the getter, called on its own and by the map, has returned null, and
\* the evaluator has turned that into the no-data colour under the non-empty
\* rule list of the polygon's data source
C20_Witness ==
    /\ polygons # <<>>
    /\ PolygonId \notin DOMAIN weatherData
    /\ OtherPolygonId \in DOMAIN weatherData
    /\ currentValue[timeline.mode] = Null
    /\ value = Null
    /\ colorRules # <<>>
    /\ color = NoDataColor

-----------------------------------------------------------------------------
(* The timeline controls *)

\* C23: through the slider, the mode buttons, Now, Last 24h and Last Week
\* the selected hour and both ends of the selected range stay within 0..719,
\* and the start of the range is not greater than its end
C23_SelectionInRange ==
    /\ timeline.selectedHour \in minHour..maxHour
    /\ timeline.selectedRange[1] \in minHour..maxHour
    /\ timeline.selectedRange[2] \in minHour..maxHour
    /\ timeline.selectedRange[1] <= timeline.selectedRange[2]

\* Last Week was pressed with the range ending at hour 30: the start is
\* clamped to 0
C23_Witness ==
    /\ timeline.mode = "range"
    /\ timeline.selectedRange = <<0, 30>>

\* C26: on a page whose only events after its load are changes of the
\* timeline selection (hour, range, mode), no step issues a weather request
\* once the requests of the page load are out
C26_SelectionIssuesNoRequest ==
    [][requests' # requests => requests = <<>>]_vars

-----------------------------------------------------------------------------
(* The stored colours *)

\* C28: when no fetch is in flight and no effect is due, the stored colour of
\* every polygon is the colour of its current value under the rules of its
\* data source
C28_ColorReflectsCache ==
    Quiescent =>
        \A i \in 1..Len(polygons) :
            LET ds == findDataSource(dataSources, polygons[i].dataSourceId)
            IN  ds # 0 => polygons[i].color = newColor(polygons[i], ds)

-----------------------------------------------------------------------------
(* Drawing and editing on the map: PolygonDrawer, PolygonEditor and the map
   component's handlers around them, on a page that has not heard from the
   network yet *)

MinVertices == 3

MaxVertices == 12

\* where the clicks of a drawing fall: click i at Outline[i]
Outline == [i \in 1..(MaxVertices + 1) |-> <<i, i * i>>]

\* the point counts at which the user presses Complete
CompleteInputs == {MinVertices, MaxVertices + 1}

\* where a dragged vertex is moved to
DragInputs == {<<5, 1>>}

\* the vertices the user takes hold of: the first and the last
VertexInputs(pts) == {1, Len(pts)}

\* the page loads, as in StoreInit, with nothing saved or with the polygon an
\* earlier session has saved, some milliseconds after it
DrawInit ==
    /\ now = StoreNow
    /\ storage \in SavedSessionInputs
    /\ timeline = rehydrate(storage).timeline
    /\ polygons = rehydrate(storage).polygons
    /\ selectedPolygonId = rehydrate(storage).selectedPolygonId
    /\ drawingMode = rehydrate(storage).drawingMode
    /\ dataSources = ColorLegend(rehydrate(storage).dataSources,
                                 rehydrate(storage).polygons,
                                 rehydrate(storage).selectedPolygonId)
    /\ weatherData = rehydrate(storage).weatherData
    /\ isLoading = rehydrate(storage).isLoading
    /\ tzOffset = 0
    /\ currentValue = [m \in Modes |-> NotResolved]
    /\ ColorIdle
    /\ GeomIdle
    /\ CheckIdle
    /\ msClock = IF storage = NoItem THEN 0 ELSE 2
    /\ requests = <<>>
    /\ pending = {}
    /\ failed = {}
    /\ messages = {}
    /\ effectPending = TRUE
    /\ colorPending = TRUE
    /\ EditIdle
    /\ AdapterIdle

\* a drawing that never completes by itself
autoCompletes_never(newPoints) == FALSE

\* the click handler's newPoints.length >= 12
autoCompletes(newPoints) == Len(newPoints) >= MaxVertices

\* PolygonDrawer.handleComplete(currentPoints), and
\* MapComponent.handlePolygonComplete with more than one data source: below
\* three points message.error and nothing else; otherwise the points wait for
\* the data source modal and the drawing ends
PolygonDrawer_handleComplete(currentPoints) ==
    IF Len(currentPoints) < MinVertices
    THEN /\ messages' = messages \cup
               {Msg("error", "A polygon must have at least 3 points.", 0)}
         /\ drawn' = currentPoints
         /\ UNCHANGED <<points, drawingMode, storage>>
    ELSE /\ Len(dataSources) # 1
         /\ points' = currentPoints
         /\ drawn' = <<>>
         /\ drawingMode' = FALSE
         /\ UNCHANGED messages
         /\ Persist

\* PolygonDrawer's map click: the point is appended, and the twelfth point
\* completes the drawing
PolygonDrawer_click(latlng) ==
    /\ ~effectPending /\ ~colorPending
    /\ drawingMode
    /\ UNCHANGED <<timeline, weatherData, polygons, dataSources,
                   selectedPolygonId, isLoading, msClock, requests, pending,
                   failed, effectPending, colorPending, editingPolygonId,
                   editingPoints, draggedVertexIndex, renameVars, idleVars>>
    /\ LET newPoints == Append(drawn, latlng)
       IN  IF autoCompletes(newPoints)
           THEN PolygonDrawer_handleComplete(newPoints)
           ELSE /\ drawn' = newPoints
                /\ UNCHANGED <<points, drawingMode, messages, storage>>

\* the Complete button, shown once a point is drawn and enabled from three
\* points on
PolygonDrawer_complete ==
    /\ ~effectPending /\ ~colorPending
    /\ drawingMode
    /\ drawn # <<>>
    /\ Len(drawn) >= MinVertices
    /\ Len(drawn) \in CompleteInputs
    /\ UNCHANGED <<timeline, weatherData, polygons, dataSources,
                   selectedPolygonId, isLoading, msClock, requests, pending,
                   failed, effectPending, colorPending, editingPolygonId,
                   editingPoints, draggedVertexIndex, renameVars, idleVars>>
    /\ PolygonDrawer_handleComplete(drawn)

\* PolygonDrawer.handleCancel, on the Cancel button shown once a point is drawn
PolygonDrawer_handleCancel ==
    /\ ~effectPending /\ ~colorPending
    /\ drawingMode
    /\ drawn # <<>>
    /\ drawn' = <<>>
    /\ drawingMode' = FALSE
    /\ UNCHANGED <<timeline, weatherData, points, polygons, dataSources,
                   selectedPolygonId, isLoading, msClock, requests, pending,
                   failed, messages, effectPending, colorPending,
                   editingPolygonId, editingPoints, draggedVertexIndex,
                   renameVars, idleVars>>
    /\ Persist

\* MapComponent.handleEditPolygon on the Edit button of the selected polygon's
\* panel: the editor mounts with the polygon's points
handleEditPolygon(polygonId) ==
    /\ ~effectPending /\ ~colorPending
    /\ ~drawingMode /\ points = <<>>
    /\ editingPolygonId = NoId
    /\ selectedPolygonId = polygonId
    /\ \E i \in 1..Len(polygons) :
         /\ polygons[i].id = polygonId
         /\ \A j \in 1..(i - 1) : polygons[j].id # polygonId
         /\ editingPoints' = polygons[i].points
    /\ editingPolygonId' = polygonId
    /\ draggedVertexIndex' = NoIndex
    /\ UNCHANGED <<timeline, weatherData, points, storeVars, fetchVars, drawn,
                   renameVars, idleVars>>

\* PolygonEditor.handleVertexMouseDown
handleVertexMouseDown(index) ==
    /\ ~effectPending /\ ~colorPending
    /\ editingPolygonId # NoId
    /\ index \in 1..Len(editingPoints)
    /\ draggedVertexIndex' = index
    /\ UNCHANGED <<timeline, weatherData, points, storeVars, fetchVars, drawn,
                   editingPolygonId, editingPoints, renameVars, idleVars>>

\* PolygonEditor's mousemove with a vertex held
PolygonEditor_mousemove(latlng) ==
    /\ ~effectPending /\ ~colorPending
    /\ editingPolygonId # NoId
    /\ draggedVertexIndex # NoIndex
    /\ editingPoints' = [editingPoints EXCEPT ![draggedVertexIndex] = latlng]
    /\ UNCHANGED <<timeline, weatherData, points, storeVars, fetchVars, drawn,
                   editingPolygonId, draggedVertexIndex, renameVars, idleVars>>

\* an update of the points that leaves the centroid and the box as stored
handleUpdatePolygonPoints_pointsOnly(ps, polygonId, newPoints) ==
    updatePolygon(ps, polygonId, [points |-> newPoints])

\* MapComponent.handleUpdatePolygonPoints
handleUpdatePolygonPoints(ps, polygonId, newPoints) ==
    updatePolygon(ps, polygonId,
        [points |-> newPoints,
         centroid |-> calculateCentroid(newPoints),
         boundingBox |-> calculateBoundingBox(newPoints)])

\* PolygonEditor's mouseup with a vertex held: the points go to the store
PolygonEditor_mouseup ==
    /\ ~effectPending /\ ~colorPending
    /\ editingPolygonId # NoId
    /\ draggedVertexIndex # NoIndex
    /\ polygons' = handleUpdatePolygonPoints(polygons, editingPolygonId,
                                             editingPoints)
    /\ draggedVertexIndex' = NoIndex
    /\ effectPending' = TRUE
    /\ colorPending' = TRUE
    /\ UNCHANGED <<timeline, weatherData, points, dataSources,
                   selectedPolygonId, drawingMode, isLoading, msClock, requests,
                   pending, failed, messages, drawn, editingPolygonId,
                   editingPoints, renameVars, idleVars>>
    /\ Persist

\* PolygonEditor.handleFinishEditing on Save Changes: the points go to the
\* store and the editor unmounts
PolygonEditor_handleFinishEditing ==
    /\ ~effectPending /\ ~colorPending
    /\ editingPolygonId # NoId
    /\ polygons' = handleUpdatePolygonPoints(polygons, editingPolygonId,
                                             editingPoints)
    /\ editingPolygonId' = NoId
    /\ editingPoints' = <<>>
    /\ draggedVertexIndex' = NoIndex
    /\ effectPending' = TRUE
    /\ colorPending' = TRUE
    /\ UNCHANGED <<timeline, weatherData, points, dataSources,
                   selectedPolygonId, drawingMode, isLoading, msClock, requests,
                   pending, failed, messages, drawn, renameVars, idleVars>>
    /\ Persist

\* PolygonEditor.handleCancelEditing on Cancel: the editor's points are set to
\* the polygon's stored points and the editor unmounts
handleCancelEditing ==
    /\ ~effectPending /\ ~colorPending
    /\ editingPolygonId # NoId
    /\ editingPolygonId' = NoId
    /\ editingPoints' = <<>>
    /\ draggedVertexIndex' = NoIndex
    /\ UNCHANGED <<timeline, weatherData, points, storeVars, fetchVars, drawn,
                   renameVars, idleVars>>

DrawNext ==
    \/ handleStartDrawing
    \/ \E i \in DOMAIN Outline : i = Len(drawn) + 1 /\ PolygonDrawer_click(Outline[i])
    \/ PolygonDrawer_complete
    \/ PolygonDrawer_handleCancel
    \/ \E dataSourceId \in DataSourceChoices : handleDataSourceSelect(dataSourceId)
    \/ DataSourceSelectorModal_onClose
    \/ \E i \in 1..Len(polygons) : handlePolygonClick(polygons[i].id)
    \/ \E i \in 1..Len(polygons) : handleEditPolygon(polygons[i].id)
    \/ \E index \in VertexInputs(editingPoints) : handleVertexMouseDown(index)
    \/ \E latlng \in DragInputs : PolygonEditor_mousemove(latlng)
    \/ PolygonEditor_mouseup
    \/ PolygonEditor_handleFinishEditing
    \/ handleCancelEditing
    \/ runEffects
    \/ Reload

SpecDraw == DrawInit /\ [][DrawNext]_vars

\* C21: every polygon in the store has between three and twelve vertices:
\* the drawer never holds twelve points (the twelfth click completes the
\* drawing), the points handed to the data source modal are none or three to
\* twelve, and the editor shows as many vertices as the polygon it edits has
C21_VertexCount ==
    /\ \A i \in 1..Len(polygons) :
          Len(polygons[i].points) \in MinVertices..MaxVertices
    /\ Len(drawn) < MaxVertices
    /\ points = <<>> \/ Len(points) \in MinVertices..MaxVertices
    /\ \A i \in 1..Len(polygons) :
          polygons[i].id = editingPolygonId
          => Len(editingPoints) = Len(polygons[i].points)

\* a polygon drawn to its twelfth click has had its last vertex dragged
C21_Witness ==
    \E i \in 1..Len(polygons) :
        /\ Len(polygons[i].points) = MaxVertices
        /\ polygons[i].points[MaxVertices] \in DragInputs

\* C22: every polygon's stored centroid and bounding box are
\* calculateCentroid and calculateBoundingBox of its stored points
C22_GeometryDerived ==
    \A i \in 1..Len(polygons) :
        /\ polygons[i].centroid = calculateCentroid(polygons[i].points)
        /\ polygons[i].boundingBox = calculateBoundingBox(polygons[i].points)

\* a polygon whose first vertex was dragged, stored by Save Changes, and
\* read back by a reload
C22_Witness ==
    /\ \E i \in 1..Len(polygons) :
          /\ polygons[i].points[1] \in DragInputs
          /\ polygons[i].centroid # calculateCentroid(ExamplePoints)
    /\ editingPolygonId = NoId
    /\ \E i \in 1..Len(requests) : requests[i] = Abandoned

\* the points, centroid and bounding box stored for a polygon id
StoredGeometry(ps, id) ==
    {<<ps[i].points, ps[i].centroid, ps[i].boundingBox>> :
        i \in {j \in 1..Len(ps) : ps[j].id = id}}

\* C29: what the store holds for the polygon being edited stays as it was
\* when the edit started for as long as the edit is open, so that Cancel,
\* which writes nothing to the store, leaves it as it was at the start
C29_CancelRestores ==
    [][(editingPolygonId # NoId /\ editingPolygonId' = editingPolygonId)
       => StoredGeometry(polygons', editingPolygonId)
            = StoredGeometry(polygons, editingPolygonId)]_vars

-----------------------------------------------------------------------------
(* Polygon names, data sources and colour rules: the rename controls of the
   map component and the sidebar, with selection and deletion, on a page with
   a saved polygon or with none *)

\* the model follows a page up to MaxEdits changes of a name, a data source
\* or a rule, each a millisecond or more after the event before; the page
\* has loaded at msClock = 2 (TimelineInit)
MaxEdits == 2

WithinEdits == msClock < 2 + MaxEdits

\* String.prototype.trim of a text whose only white space is blanks
RECURSIVE trim(_)
trim(s) ==
    IF Len(s) = 0 THEN s
    ELSE IF SubSeq(s, 1, 1) = " " THEN trim(SubSeq(s, 2, Len(s)))
    ELSE IF SubSeq(s, Len(s), Len(s)) = " " THEN trim(SubSeq(s, 1, Len(s) - 1))
    ELSE s

\* what is typed into the rename input
NameInputs == {" ", " Lake "}

\* `datasource_${Date.now()}` when Date.now() reads t
dataSourceIdAt(t) == "datasource_" \o ToString(t)

\* `rule_${Date.now()}` when Date.now() reads t
ruleIdAt(t) == "rule_" \o ToString(t)

\* store addDataSource: { id, ...dataSourceData } is appended
addDataSource(dss, dataSourceData, t) ==
    Append(dss,
        [id |-> dataSourceIdAt(t), name |-> dataSourceData.name,
         field |-> dataSourceData.field,
         colorRules |-> dataSourceData.colorRules])

\* store updateDataSource: state.dataSources.map(ds => ds.id === id ? ... : ds)
updateDataSource(dss, id, updates) ==
    [i \in 1..Len(dss) |-> IF dss[i].id = id THEN spread(dss[i], updates) ELSE dss[i]]

\* the form of the new data source modal, filled in
NewDataSourceInputs == {[name |-> "Pressure", field |-> "surface_pressure"]}

\* the form of a colour rule, filled in
RuleFormInputs == {[operator |-> "<", value |-> 100, color |-> "#722ed1"]}

\* the data sources offered for the selected polygon that the model picks:
\* the first and the last
SourceInputs == {1, Len(dataSources)}

\* the data source card the model works on: the last
CardInputs == {Len(dataSources)}

\* the rename controls and the sidebar leave these alone
settingsRest == <<timeline, weatherData, points, requests, pending, failed,
                  messages, drawn, editingPolygonId, editingPoints,
                  draggedVertexIndex, idleVars>>

\* the selected polygon's panel is on the page
panelShown ==
    /\ points = <<>>
    /\ selectedPolygonId # NoId
    /\ editingPolygonId = NoId

\* MapComponent.handleStartRenaming, on the name in the selected polygon's
\* panel
handleStartRenaming(polygonId, currentName) ==
    /\ ~effectPending /\ ~colorPending
    /\ panelShown
    /\ selectedPolygonId = polygonId
    /\ renamingPolygonId # polygonId
    /\ renamingPolygonId' = polygonId
    /\ newPolygonName' = currentName
    /\ UNCHANGED <<storeVars, msClock, effectPending, colorPending, settingsRest>>

\* the rename input's onChange: setNewPolygonName(e.target.value)
setNewPolygonName(text) ==
    /\ ~effectPending /\ ~colorPending
    /\ panelShown
    /\ renamingPolygonId = selectedPolygonId
    /\ newPolygonName' = text
    /\ UNCHANGED <<renamingPolygonId, storeVars, msClock, effectPending,
                   colorPending, settingsRest>>

\* MapComponent.handleFinishRenaming: Enter, blur or the save button of the
\* rename input
handleFinishRenaming ==
    /\ ~effectPending /\ ~colorPending
    /\ panelShown
    /\ renamingPolygonId = selectedPolygonId
    /\ WithinEdits
    /\ msClock' = msClock + 1
    /\ renamingPolygonId' = NoId
    /\ newPolygonName' = ""
    /\ UNCHANGED <<dataSources, selectedPolygonId, drawingMode, isLoading,
                   settingsRest>>
    /\ IF renamingPolygonId # NoId /\ trim(newPolygonName) # ""
       THEN /\ polygons' = updatePolygon(polygons, renamingPolygonId,
                                         [name |-> trim(newPolygonName)])
            /\ effectPending' = TRUE
            /\ colorPending' = TRUE
            /\ Persist
       ELSE UNCHANGED <<polygons, storage, effectPending, colorPending>>

\* MapComponent.handleCancelRenaming
handleCancelRenaming ==
    /\ ~effectPending /\ ~colorPending
    /\ panelShown
    /\ renamingPolygonId = selectedPolygonId
    /\ renamingPolygonId' = NoId
    /\ newPolygonName' = ""
    /\ UNCHANGED <<storeVars, msClock, effectPending, colorPending, settingsRest>>

\* one set of state.dataSources by the sidebar: both effects are due
setDataSources(dss) ==
    /\ ~effectPending /\ ~colorPending
    /\ points = <<>>
    /\ WithinEdits
    /\ msClock' = msClock + 1
    /\ dataSources' = ColorLegend(dss, polygons, selectedPolygonId)
    /\ effectPending' = TRUE
    /\ colorPending' = TRUE
    /\ UNCHANGED <<polygons, selectedPolygonId, drawingMode, isLoading,
                   renameVars, settingsRest>>
    /\ PersistBeforeRender(dss)

\* NewDataSourceModal.handleSubmit on a valid form, with
\* Sidebar.handleAddDataSource: the new source gets the rules default_1 and
\* default_2
NewDataSourceModal_handleSubmit(values) ==
    /\ setDataSources(
          addDataSource(dataSources,
              [name |-> values.name, field |-> values.field,
               colorRules |-> <<ColorRule("default_1", Rule("<", 10, "#1890ff")),
                                ColorRule("default_2", Rule(">=", 10, "#52c41a"))>>],
              msClock))

\* DataSourceCard.handleAddRule, with Sidebar.handleUpdateDataSource
handleAddRule(ds) ==
    /\ setDataSources(
          updateDataSource(dataSources, dataSources[ds].id,
              [colorRules |-> Append(dataSources[ds].colorRules,
                   ColorRule(ruleIdAt(msClock), Rule(">=", 0, "#1890ff")))]))

\* DataSourceCard.handleUpdateRule, with Sidebar.handleUpdateDataSource
handleUpdateRule(ds, updatedRule) ==
    /\ setDataSources(
          updateDataSource(dataSources, dataSources[ds].id,
              [colorRules |->
                  [i \in DOMAIN dataSources[ds].colorRules |->
                      IF dataSources[ds].colorRules[i].id = updatedRule.id
                      THEN updatedRule
                      ELSE dataSources[ds].colorRules[i]]]))

\* ColorRuleItem.handleSave on a valid form: onUpdate({ ...rule, ...values })
ColorRuleItem_handleSave(ds, rule, values) ==
    handleUpdateRule(ds, spread(rule, values))

\* DataSourceCard.handleDeleteRule, with Sidebar.handleUpdateDataSource
handleDeleteRule(ds, ruleId) ==
    /\ setDataSources(
          updateDataSource(dataSources, dataSources[ds].id,
              [colorRules |-> SelectSeq(dataSources[ds].colorRules,
                                        LAMBDA rule : rule.id # ruleId)]))

SettingsNext ==
    \/ \E i \in 1..Len(polygons) : handlePolygonClick(polygons[i].id)
    \/ \E ds \in SourceInputs : handlePolygonDataSourceChange(dataSources[ds].id)
    \/ \E i \in 1..Len(polygons) :
          /\ polygons[i].id = selectedPolygonId
          /\ handleDeletePolygon(polygons[i].id)
    \/ \E i \in 1..Len(polygons) :
          handleStartRenaming(polygons[i].id, polygons[i].name)
    \/ \E text \in NameInputs : setNewPolygonName(text)
    \/ handleFinishRenaming
    \/ handleCancelRenaming
    \/ \E values \in NewDataSourceInputs : NewDataSourceModal_handleSubmit(values)
    \/ \E ds \in CardInputs : handleAddRule(ds)
    \/ \E ds \in CardInputs, values \in RuleFormInputs :
          /\ dataSources[ds].colorRules # <<>>
          /\ ColorRuleItem_handleSave(ds, dataSources[ds].colorRules[1], values)
    \/ \E ds \in CardInputs :
          /\ dataSources[ds].colorRules # <<>>
          /\ handleDeleteRule(ds, dataSources[ds].colorRules[1].id)
    \/ runEffects
    \/ Reload

\* the page loads as in TimelineInit
SpecSettings == TimelineInit /\ [][SettingsNext]_vars

-----------------------------------------------------------------------------
(* The response adapter: WeatherService.transformWeatherData *)

MaxHours == 3

\* what an index outside an array gives
Undefined == [kind |-> "undefined"]

\* the hourly values the API's JSON carries: numbers, and null for an hour
\* the archive has no measurement of
ResponseValueInputs == {Num(0), Num(20), Num(-3), Null}

\* hourly.time of a response of n hours, from 00:00 of the start date on
hourlyTime(n) == [i \in 1..n |-> Stamp(0, i - 1, 0)]

\* the hourly object: the time array and the array of the requested field,
\* of the same length
ResponseInputs ==
    UNION {{[time |-> hourlyTime(n), values |-> v] :
                v \in [1..n -> ResponseValueInputs]} : n \in 0..MaxHours}

\* valueArray[index]
elementAt(array, index) ==
    IF index \in DOMAIN array THEN array[index] ELSE Undefined

\* JavaScript's falsy values among those an element can be: null, undefined,
\* 0 and NaN (0 / 0)
falsy(v) == v.kind \in {"null", "undefined"} \/ (v.kind = "number" /\ v.num = 0)

\* x || 0
orZero(x) == IF falsy(x) THEN Num(0) ELSE x

transformWeatherData(polygonId, hourly) ==
    [index \in 1..Len(hourly.time) |->
        [polygonId |-> polygonId,
         timestamp |-> hourly.time[index],
         value |-> orZero(elementAt(hourly.values, index))]]

Returned(v) == [kind |-> "returned", value |-> v]

TransformInit ==
    /\ response \in ResponseInputs
    /\ transformed = NotTransformed
    /\ ColorIdle
    /\ ValueIdle
    /\ GeomIdle
    /\ now = 0
    /\ CheckIdle
    /\ StoreIdle
    /\ FetchIdle
    /\ EditIdle

CallTransform ==
    /\ transformed = NotTransformed
    /\ transformed' = Returned(transformWeatherData(PolygonId, response))
    /\ UNCHANGED <<response, colorVars, valueVars, geomVars, now, checkVars,
                   storeVars, fetchVars, editVars>>

TransformNext == CallTransform

SpecTransform == TransformInit /\ [][TransformNext]_vars

\* C25: transformWeatherData returns one point per element of hourly.time,
\* in the same order; point i carries the timestamp time[i] and the value
\* values[i] of the requested field
C25_ZipsPositionally ==
    transformed # NotTransformed =>
        /\ Len(transformed.value) = Len(response.time)
        /\ \A i \in 1..Len(response.time) :
              /\ transformed.value[i].timestamp = response.time[i]
              /\ transformed.value[i].value = response.values[i]

-----------------------------------------------------------------------------
(* The fallback series, the key of the first fetch, and the references the
   store holds *)

\* C24: the fallback series is a function of the polygon and the fetch
\* window: when a fallback series replaces a fallback series generated for
\* the same key and the same window, the two have the same content
C24_FallbackDeterministic ==
    [][\A k \in DOMAIN weatherData \cap DOMAIN weatherData' :
          (/\ weatherData[k].origin = "mock"
           /\ weatherData'[k].origin = "mock"
           /\ weatherData'[k].startDate = weatherData[k].startDate)
          => series(weatherData'[k]) = series(weatherData[k])]_vars

\* C27: the request createPolygon issues carries the id that addPolygon
\* gave to the polygon stored in the same step
C27_InitialKeyIsPolygonId ==
    [][\A i \in (Len(requests) + 1)..Len(requests') :
          requests'[i].site = "initial"
          => requests'[i].key = polygons'[Len(polygons')].id]_vars

\* C30: every polygon's data source is one of the data sources, and the
\* selection is empty or names a stored polygon, whatever data sources and
\* rules the sidebar has added or changed
C30_ReferencesResolve ==
    /\ \A i \in 1..Len(polygons) :
          findDataSource(dataSources, polygons[i].dataSourceId) # 0
    /\ selectedPolygonId = NoId \/ selectedPolygonId \in polygonIds(polygons)

\* the selected polygon uses a data source the sidebar has added, and a rule
\* of that data source has been deleted since
C30_Witness ==
    /\ selectedPolygonId # NoId
    /\ \E i \in 1..Len(polygons) :
          /\ polygons[i].id = selectedPolygonId
          /\ polygons[i].dataSourceId \notin
                {DEFAULT_DATA_SOURCES[k].id : k \in DOMAIN DEFAULT_DATA_SOURCES}
          /\ Len(dataSources[findDataSource(dataSources,
                     polygons[i].dataSourceId)].colorRules) = 1

====
